---- MODULE Spec2Model ----
(***************************************************************************)
(* State-machine model of swarm-mcp's coordination core: the issue/task    *)
(* pool, submissions and reviews, next-step tokens, inboxes, deliveries    *)
(* and the lease-based file-lock manager.                                  *)
(*                                                                         *)
(* Every action is one critical section of store.WithLock (or one          *)
(* unlocked read sequence of a handler); a handler that takes the lock     *)
(* more than once is a sequence of actions.  The clock `now` counts whole  *)
(* minutes; all TTL inputs are whole minutes.                              *)
(***************************************************************************)
EXTENDS Integers, Sequences, FiniteSets, TLC

\* ------------------------------------------------------------------ bounds
MaxTime      == 2   \* lock runs: the clock stops advancing here
MaxTaskTime  == 2   \* task runs: the clock stops advancing here
MaxCloseTime == 1   \* close runs: the clock stops advancing here
MaxCloseSeq  == 7   \* close runs: cap on next_seq
MaxCloseTasks == 2  \* close runs: tasks created
MaxCloseTokens == 1 \* close runs: tokens minted
MaxPoints    == 20  \* getNextStepToken is not called for a worker whose total reached it
MaxLeases    == 2   \* lease ids handed out by GenID("l")
MaxSeq       == 8   \* task runs: no handler that appends an event starts once next_seq exceeds it
MaxResetSeq  == 6   \* runs with resetIssueTask and locks: the same cap
MaxResetTime == 2   \* runs with resetIssueTask and locks: the clock stops here
MaxResetLeases == 1 \* runs with resetIssueTask and locks: lease ids handed out
MaxResetTasks == 1  \* runs with resetIssueTask and locks: tasks created
MaxSubs      == 2   \* submissions created by submitIssueTask
MaxTokens    == 1   \* tokens minted by getNextStepToken
MaxDelivTime == 2   \* delivery runs: the clock stops advancing here
MaxDelivSeq  == 6   \* delivery runs: cap on next_seq
MaxDeliveries == 1  \* delivery runs: deliveries created
MaxInboxTime == 6   \* inbox runs: the clock stops advancing here
MaxInboxTick == 1   \* inbox runs: no single minute passes after this time
MaxInboxSeq  == 7   \* inbox runs: cap on next_seq

\* --------------------------------------------------------- configuration
\* NewIssueService(store, trace, issueTTLSec, taskTTLSec, defaultTimeoutSec)
IssueTTL       == 3
TaskTTL        == 1
DefaultTimeout == 2
\* hard-wired durations, in minutes
DefaultLockTTL == 2   \* 120 s
ReserveTTL     == 2   \* 2 * 60 * 1000 ms
InboxClaimTTL  == 5   \* 300 s

Workers  == {"w1", "w2"}
Lead     == "lead"
Acceptor == "acceptor"

\* ------------------------------------------------------------------ files
Files    == {"a.go", "b.go"}
RawFiles == Files \cup {"./a.go"}
ResetRaws == {{"a.go"}, {"a.go", "b.go"}}
\* changed_files lists a lead passes to submitDelivery
DeliveryFiles == {<< >>, << "a.go" >>, << "a.go", "a.go" >>}
FileRank == [f \in Files |-> IF f = "a.go" THEN 1 ELSE 2]

\* filepath.Clean on the paths of RawFiles
Clean(p) == IF p = "./a.go" THEN "a.go" ELSE p

\* PathHash: the key of a FileLock is the hash of the cleaned path
PathHash(p) == Clean(p)

RECURSIVE SortFrom(_, _)
SortFrom(raws, r) ==
  IF r > Cardinality(Files) THEN << >>
  ELSE LET f == CHOOSE x \in Files : FileRank[x] = r
           n == Cardinality({x \in raws : Clean(x) = f})
       IN  [i \in 1..n |-> f] \o SortFrom(raws, r + 1)

\* LockFiles: normalized[i] = filepath.Clean(files[i]); sort.Strings(normalized)
Normalize(raws) == SortFrom(raws, 1)

SeqRange(s) == {s[i] : i \in 1..Len(s)}

NoLock  == [lease |-> 0, owner |-> "", task |-> 0, expires |-> 0]
None    == "none"

VARIABLES
  now,          \* wall clock
  issue,        \* issue.json: [status, lease]; status "none" before createIssue
  meta,         \* meta.json: [nextSeq, nextTaskNum]
  events,       \* events.jsonl: sequence of [seq, type, task]
  tasks,        \* tasks/<id>.json, keyed by task number
  subs,         \* submissions/<task>/<id>.json, keyed by submission number
  msgs,         \* messages/<id>.json
  tokens,       \* next_steps/<token>.json
  leadInbox,    \* inbox/lead/<id>.json
  workerInbox,  \* inbox/workers/<worker>/<id>.json
  accInbox,     \* deliveries/inbox/acceptor/<id>.json
  deliveries,   \* deliveries/<id>.json
  points,       \* workers/<worker>.json of the issue: total_points
  leases,       \* locks/leases/<id>.json
  fileLocks,    \* locks/files/<hash>.json
  ids,          \* next fresh id per GenID prefix
  calls,        \* handlers that have read outside the lock and not yet committed
  last          \* the last call that returned: what it was and what it answered

vars == << now, issue, meta, events, tasks, subs, msgs, tokens, leadInbox,
           workerInbox, accInbox, deliveries, points, leases, fileLocks, ids,
           calls, last >>

issueVars == << issue, meta, events, tasks, subs, msgs, tokens, leadInbox,
                workerInbox, points >>
lockVars  == << leases, fileLocks >>
delivVars == << accInbox, deliveries >>

\* the empty store directory
Blank ==
  [issue |-> [status |-> None, lease |-> 0],
   meta |-> [nextSeq |-> 0, nextTaskNum |-> 0],
   events |-> << >>,
   tasks |-> << >>,
   subs |-> [x \in {} |-> 0],
   msgs |-> [x \in {} |-> 0],
   tokens |-> [x \in {} |-> 0],
   leadInbox |-> [x \in {} |-> 0],
   workerInbox |-> {},
   accInbox |-> [x \in {} |-> 0],
   deliveries |-> [x \in {} |-> 0],
   points |-> [w \in Workers |-> [total |-> 0, low |-> 0]],
   leases |-> [l \in {} |-> NoLock],
   fileLocks |-> [f \in Files |-> NoLock],
   ids |-> [lease |-> 1, sub |-> 1, msg |-> 1, tok |-> 1, inbox |-> 1, deliv |-> 1]]

\* the server starts at time 0 on the store w, nobody is inside a handler
StartOn(w) ==
  /\ now = 0
  /\ issue = w.issue /\ meta = w.meta /\ events = w.events /\ tasks = w.tasks
  /\ subs = w.subs /\ msgs = w.msgs /\ tokens = w.tokens
  /\ leadInbox = w.leadInbox /\ workerInbox = w.workerInbox
  /\ accInbox = w.accInbox /\ deliveries = w.deliveries /\ points = w.points
  /\ leases = w.leases /\ fileLocks = w.fileLocks /\ ids = w.ids
  /\ calls = [a \in {} |-> None]
  /\ last = [op |-> "init", ok |-> TRUE, who |-> "", arg |-> 0]

Init == StartOn(Blank)

\* time passes; no run goes past max
Tick(max) ==
  /\ now < max
  /\ now' = now + 1
  /\ UNCHANGED << issueVars, lockVars, delivVars, ids, calls, last >>


\* a whole inbox claim TTL passes
ClaimTTLPasses(max) ==
  /\ now + InboxClaimTTL <= max
  /\ now' = now + InboxClaimTTL
  /\ UNCHANGED << issueVars, lockVars, delivVars, ids, calls, last >>

\* ============================================================ the store
\* Everything under {root}: handlers are functions from one store to the next.
Cur == [issue |-> issue, meta |-> meta, events |-> events, tasks |-> tasks,
        subs |-> subs, msgs |-> msgs, tokens |-> tokens, leadInbox |-> leadInbox,
        workerInbox |-> workerInbox, accInbox |-> accInbox, deliveries |-> deliveries,
        points |-> points, leases |-> leases, fileLocks |-> fileLocks, ids |-> ids]

Commit(w) ==
  /\ issue' = w.issue /\ meta' = w.meta /\ events' = w.events /\ tasks' = w.tasks
  /\ subs' = w.subs /\ msgs' = w.msgs /\ tokens' = w.tokens
  /\ leadInbox' = w.leadInbox /\ workerInbox' = w.workerInbox
  /\ accInbox' = w.accInbox /\ deliveries' = w.deliveries /\ points' = w.points
  /\ leases' = w.leases /\ fileLocks' = w.fileLocks /\ ids' = w.ids

Ret(op, ok, who, arg) == [op |-> op, ok |-> ok, who |-> who, arg |-> arg]

Without(f, ks) == [k \in DOMAIN f \ ks |-> f[k]]
With(f, k, v)  == [x \in DOMAIN f \cup {k} |-> IF x = k THEN v ELSE f[x]]

\* appendEventLocked: seq = meta.next_seq; meta.next_seq++; append one line
AppendEvent(w, type, task) ==
  [w EXCEPT !.events = Append(@, [seq |-> w.meta.nextSeq, type |-> type, task |-> task]),
            !.meta.nextSeq = @ + 1]

\* calcLeaseExpiryMs(extendSec, defaultSec)
CalcLeaseExpiry(extendSec, defaultSec) ==
  LET sec == IF extendSec <= 0 THEN defaultSec ELSE extendSec
  IN  IF sec <= 0 THEN 0 ELSE now + sec

LeaseLapsed(lease) == lease > 0 /\ now > lease

\* the names task docs are written under, and the spec doc every task requires
DocNames         == {"spec", "notes"}
RequiredTaskDocs == {"spec"}

\* a task doc is stored as <name>.md in the task's docs directory
DocFile(name) == << name, ".md" >>

\* ResetTask: the doc a file of the docs directory stands for, its name without .md
DocRel(file) == file[1]

NewTask(diff, pts) ==
  [status |-> "open", claimedBy |-> "", submitter |-> "", lease |-> 0,
   resTok |-> 0, resUntil |-> 0, nsTok |-> 0, verdict |-> "", files |-> {},
   difficulty |-> diff, points |-> pts,
   docs |-> {DocFile(n) : n \in RequiredTaskDocs}]

ExpireTaskKeepsOwner(t) == [t EXCEPT !.status = "open"]

\* the fields SweepExpired clears when a task's lease has lapsed
ExpireTask(t) ==
  [t EXCEPT !.status = "open", !.claimedBy = "", !.submitter = "", !.files = {},
            !.verdict = ""]

RECURSIVE SweepTasks(_, _)
SweepTasks(w, i) ==
  IF i > Len(w.tasks) THEN w
  ELSE LET t == w.tasks[i]
       IN  IF t.status \in {"in_progress", "blocked", "submitted"} /\ LeaseLapsed(t.lease)
           THEN SweepTasks(AppendEvent([w EXCEPT !.tasks[i] = ExpireTask(t)],
                                       "issue_task_expired", i), i + 1)
           ELSE SweepTasks(w, i + 1)

SweepDeliveries(w) ==
  [w EXCEPT !.deliveries =
     [d \in DOMAIN w.deliveries |->
        IF w.deliveries[d].status = "in_review" /\ LeaseLapsed(w.deliveries[d].lease)
        THEN [w.deliveries[d] EXCEPT !.status = "open", !.claimedBy = "", !.lease = 0]
        ELSE w.deliveries[d]]]

ExpireIssueEventOnly(w) == AppendEvent(w, "issue_expired", 0)

\* SweepExpired on an issue whose lease has lapsed
ExpireIssue(w) ==
  AppendEvent([w EXCEPT !.issue.status = "canceled"], "issue_expired", 0)

\* IssueService.SweepExpired
Sweep(w) ==
  IF w.issue.status = None THEN SweepDeliveries(w)
  ELSE LET w1 == IF w.issue.status \in {"open", "in_progress"} /\ LeaseLapsed(w.issue.lease)
                 THEN ExpireIssue(w)
                 ELSE w
       IN  SweepDeliveries(SweepTasks(w1, 1))

Room(n) == meta.nextSeq <= n
TaskRoom(n) == meta.nextTaskNum <= n

\* getIssueTask, listIssues, ...: the sweep every read entry point starts with
SweepExpired ==
  /\ Sweep(Cur) # Cur
  /\ Commit(Sweep(Cur))
  /\ last' = Ret("sweep", TRUE, "", 0)
  /\ UNCHANGED << now, calls >>

\* ============================================================ issues, tasks

\* createIssue
IssueCreated(w) ==
  AppendEvent([w EXCEPT !.issue = [status |-> "open", lease |-> CalcLeaseExpiry(0, IssueTTL)],
                        !.meta = [nextSeq |-> 1, nextTaskNum |-> 1]],
              "issue_created", 0)

CreateIssue ==
  /\ issue.status = None
  /\ Commit(IssueCreated(Cur))
  /\ last' = Ret("createIssue", TRUE, Lead, 0)
  /\ UNCHANGED << now, calls >>

\* the critical section of IssueService.CreateTask
TaskNumAfterSame(n) == n

\* CreateTask: meta.next_task_num after task-n has been numbered
TaskNumAfter(n) == n + 1

CreateTaskSection(w, diff, pts) ==
  IF w.issue.status = None THEN [ok |-> FALSE, w |-> w, arg |-> 0]
  ELSE LET n  == IF w.meta.nextTaskNum <= 0 THEN 1 ELSE w.meta.nextTaskNum
           w1 == [w EXCEPT !.meta.nextTaskNum = TaskNumAfter(n),
                           !.tasks = With(w.tasks, n, NewTask(diff, pts))]
       IN  [ok |-> TRUE, w |-> AppendEvent(w1, "issue_task_created", n), arg |-> n]

\* createIssueTask (no task limit configured)
CreateTask(diff, pts) ==
  /\ LET r == CreateTaskSection(Cur, diff, pts)
     IN  Commit(r.w) /\ last' = Ret("createIssueTask", r.ok, Lead, r.arg)
  /\ UNCHANGED << now, calls >>

\* ClaimTask: the token a reserved task demands
TokenValid(w, tok, t) ==
  /\ tok \in DOMAIN w.tokens
  /\ ~w.tokens[tok].used
  /\ w.tokens[tok].attached
  /\ w.tokens[tok].nsType = "claim_task"
  /\ w.tokens[tok].nsTask = t

ClaimableUnlessDone(task) == task.status # "done"

\* ClaimTask: only an open task is handed out
Claimable(task) == task.status = "open"

MarkUsedNot(tok) == tok

\* ClaimTask: the validated token is written back as used
MarkUsed(tok) == [tok EXCEPT !.used = TRUE]

ReservationLapsedNever(task) == FALSE

\* ClaimTask: a reservation whose reserved_until_ms has passed no longer counts
ReservationLapsed(task) == task.resUntil > 0 /\ now > task.resUntil

\* the critical section of IssueService.ClaimTask
ClaimSection(w, t, actor, tok) ==
  IF t \notin DOMAIN w.tasks THEN [ok |-> FALSE, w |-> w, arg |-> 0]
  ELSE
   LET task     == w.tasks[t]
       reserved == task.resTok # 0
       lapsed   == ReservationLapsed(task)
       gate     == reserved /\ ~lapsed
       refused  == gate /\ (tok = 0 \/ tok # task.resTok \/ ~TokenValid(w, tok, t))
       \* the token file is written before the task's status is looked at
       w1       == IF gate /\ ~refused
                   THEN [w EXCEPT !.tokens[tok] = MarkUsed(@)] ELSE w
       task1    == IF reserved /\ ~refused
                   THEN [task EXCEPT !.resTok = 0, !.resUntil = 0] ELSE task
   IN  IF refused THEN [ok |-> FALSE, w |-> w, arg |-> 0]
       ELSE IF ~Claimable(task1) THEN [ok |-> FALSE, w |-> w1, arg |-> 0]
       ELSE [ok |-> TRUE,
             w  |-> AppendEvent([w1 EXCEPT !.tasks[t] =
                                   [task1 EXCEPT !.status = "in_progress",
                                                 !.claimedBy = actor,
                                                 !.lease = CalcLeaseExpiry(0, TaskTTL)]],
                                "issue_task_claimed", t),
             arg |-> IF gate THEN tok ELSE 0]

\* the store after createIssue and n calls of createIssueTask
RECURSIVE Seeded(_)
Seeded(n) ==
  IF n = 0 THEN IssueCreated(Blank) ELSE CreateTaskSection(Seeded(n - 1), "easy", 10).w

\* claimIssueTask(worker_id, task_id, next_step_token)
ClaimTask(actor, t, tok) ==
  /\ LET r == ClaimSection(Sweep(Cur), t, actor, tok)
     IN  Commit(r.w) /\ last' = IF r.ok
                                 THEN [op |-> "claimIssueTask", ok |-> TRUE, who |-> actor,
                                       arg |-> t, tok |-> tok, used |-> r.arg]
                                 ELSE Ret("claimIssueTask", FALSE, actor, t)
  /\ UNCHANGED << now, calls >>

\* writeTaskDoc(task_id, name): the file is written without the store lock
WriteTaskDoc(actor, t, name) ==
  /\ t \in DOMAIN tasks
  /\ tasks' = [tasks EXCEPT ![t].docs = @ \cup {DocFile(name)}]
  /\ last' = Ret("writeTaskDoc", TRUE, actor, t)
  /\ UNCHANGED << now, issue, meta, events, subs, msgs, tokens, leadInbox, workerInbox,
                  points, lockVars, delivVars, ids, calls >>

ResetLocksLeasesOnly(w, t, prevOwner) ==
  [w EXCEPT !.leases = Without(w.leases,
      {l \in DOMAIN w.leases : w.leases[l].task = t
          /\ (prevOwner = "" \/ w.leases[l].owner = prevOwner)})]

\* resetIssueTask: the leases and file locks tied to the task
ResetLocks(w, t, prevOwner) ==
  LET mine(x) == x.task = t /\ (prevOwner = "" \/ x.owner = prevOwner)
      gone    == {l \in DOMAIN w.leases : mine(w.leases[l])}
      locks1  == [f \in Files |->
                    IF \E l \in gone : f \in SeqRange(w.leases[l].files)
                                       /\ w.fileLocks[f].lease = l
                    THEN NoLock ELSE w.fileLocks[f]]
      locks2  == [f \in Files |->
                    IF locks1[f] # NoLock /\ mine(locks1[f]) THEN NoLock ELSE locks1[f]]
  IN  [w EXCEPT !.leases = Without(w.leases, gone), !.fileLocks = locks2]

FilterEventsNewestFirst(evs, t) ==
  LET kept == SelectSeq(evs, LAMBDA e : e.task # t)
  IN  [i \in 1 .. Len(kept) |-> kept[Len(kept) + 1 - i]]

FilterEventsAndIssue(evs, t) == SelectSeq(evs, LAMBDA e : e.task # t /\ e.task # 0)

\* resetIssueTask: events.jsonl rewritten without the task's lines
FilterEvents(evs, t) == SelectSeq(evs, LAMBDA e : e.task # t)

KeepDocsAll(docs) == docs

\* resetIssueTask: the .md files of the task's docs directory that stay
KeepDocs(docs) == {f \in docs : DocRel(f) \in RequiredTaskDocs}

\* the critical section of IssueService.ResetTask
ResetSection(w, t) ==
  IF w.issue.status = None \/ t \notin DOMAIN w.tasks THEN [ok |-> FALSE, w |-> w]
  ELSE
   LET task == w.tasks[t]
       w1 == [w EXCEPT !.tokens = Without(@, {task.resTok, task.nsTok})]
       w2 == ResetLocks(w1, t, task.claimedBy)
       w3 == [w2 EXCEPT
                !.tasks[t] = [task EXCEPT !.resTok = 0, !.resUntil = 0, !.nsTok = 0,
                                         !.status = "open", !.lease = 0,
                                         !.claimedBy = "", !.submitter = "",
                                         !.files = {}, !.verdict = "",
                                         !.docs = KeepDocs(@)],
                !.subs = Without(@, {x \in DOMAIN w.subs : w.subs[x].task = t}),
                !.msgs = Without(@, {x \in DOMAIN w.msgs : w.msgs[x].task = t}),
                !.leadInbox = Without(@, {x \in DOMAIN w.leadInbox : w.leadInbox[x].task = t}),
                !.workerInbox = {x \in w.workerInbox : x.task # t},
                !.events = FilterEvents(w.events, t)]
   IN  [ok |-> TRUE, w |-> AppendEvent(w3, "issue_task_reset", t)]

\* resetIssueTask(task_id)
ResetTask(t) ==
  /\ LET r == ResetSection(Cur, t)
     IN  Commit(r.w) /\ last' = Ret("resetIssueTask", r.ok, Lead, t)
  /\ UNCHANGED << now, calls >>

\* ============================================================ inboxes

SubRef(n) == << "sub", n >>
MsgRef(n) == << "msg", n >>

\* pushToLeadInboxLocked
PushToLeadInbox(w, t, type, ref) ==
  [w EXCEPT !.leadInbox = With(@, w.ids.inbox,
                               [task |-> t, type |-> type, ref |-> ref, status |-> "pending",
                                claimedBy |-> "", claimExp |-> 0]),
            !.ids.inbox = @ + 1]

\* pushToWorkerInboxLocked, with the status ReviewTask leaves the item in
PushToWorkerInbox(w, worker, t, type, ref, status) ==
  [w EXCEPT !.workerInbox = @ \cup {[id |-> w.ids.inbox, worker |-> worker, task |-> t,
                                     type |-> type, ref |-> ref, status |-> status]},
            !.ids.inbox = @ + 1]

\* ackLeadInboxByRefLocked
AckLeadInboxByRef(w, ref) ==
  [w EXCEPT !.leadInbox =
     [i \in DOMAIN w.leadInbox |->
        IF w.leadInbox[i].ref = ref /\ w.leadInbox[i].status # "done"
        THEN [w.leadInbox[i] EXCEPT !.status = "done"] ELSE w.leadInbox[i]]]

\* ============================================================ submissions, reviews

\* createSubmissionLocked
CreateSubmission(w, t, worker, files) ==
  [w EXCEPT !.subs = With(@, w.ids.sub, [task |-> t, worker |-> worker, status |-> "open",
                                         files |-> files, created |-> now]),
            !.ids.sub = @ + 1]

\* the critical section of IssueService.SubmitTask
SubmitSection(w, t, actor, files) ==
  IF t \notin DOMAIN w.tasks THEN [ok |-> FALSE, w |-> w, arg |-> 0]
  ELSE
   LET task == w.tasks[t]
       minLease == now + DefaultTimeout
   IN  IF task.claimedBy = "" \/ task.claimedBy # actor
          \/ task.status \notin {"in_progress", "blocked"}
       THEN [ok |-> FALSE, w |-> w, arg |-> 0]
       ELSE LET w1 == [w EXCEPT !.tasks[t].lease = IF @ < minLease THEN minLease ELSE @]
                w2 == CreateSubmission(w1, t, actor, files)
                w3 == PushToLeadInbox(w2, t, "submission", SubRef(w.ids.sub))
            IN  [ok |-> TRUE, w |-> AppendEvent(w3, "submission_created", t),
                 arg |-> w.ids.sub]

\* submitIssueTask up to the point where it starts waiting for the review
SubmitTask(actor, t, files) ==
  /\ LET r == SubmitSection(Sweep(Cur), t, actor, files)
     IN  Commit(r.w) /\ last' = Ret("submitIssueTask", r.ok, actor, r.arg)
  /\ UNCHANGED << now, calls >>

\* getLatestOpenSubmissionLocked: 0 when the task has no open submission.  Files are
\* listed in id order and a later file wins only with a strictly later created_at.
LatestOpenSubmission(w, t) ==
  LET open == {x \in DOMAIN w.subs : w.subs[x].task = t /\ w.subs[x].status = "open"}
      best == {x \in open : \A y \in open :
                 w.subs[y].created < w.subs[x].created
                 \/ (w.subs[y].created = w.subs[x].created /\ x <= y)}
  IN  IF open = {} THEN 0 ELSE CHOOSE x \in best : TRUE

\* resolveSubmissionForReview: a given submission_id is looked up in every task's directory
ResolveSubmissionForReview(w, t, subArg) ==
  IF subArg # 0 THEN (IF subArg \in DOMAIN w.subs THEN subArg ELSE 0)
  ELSE LatestOpenSubmission(w, t)

\* ReviewTask: the token must be the reviewer's and unused, and a claim_task token must
\* still hold its reservation
ReviewTokenOk(w, tok, actor) ==
  /\ tok \in DOMAIN w.tokens
  /\ w.tokens[tok].actor = actor
  /\ ~w.tokens[tok].used
  /\ w.tokens[tok].nsType = "claim_task" =>
       LET nt == w.tokens[tok].nsTask
       IN  /\ nt \in DOMAIN w.tasks
           /\ w.tasks[nt].status = "open"
           /\ w.tasks[nt].resTok = tok
           /\ ~(w.tasks[nt].resUntil > 0 /\ now > w.tasks[nt].resUntil)

\* ReviewTask: the task after the verdict
Reviewed(task, sub, verdict, tok) ==
  IF verdict = "approved"
  THEN [task EXCEPT !.verdict = verdict, !.nsTok = tok, !.status = "done",
                    !.submitter = sub.worker, !.files = sub.files]
  ELSE [task EXCEPT !.verdict = verdict, !.nsTok = tok, !.status = "in_progress"]

\* the critical section of IssueService.ReviewTask
ReviewSection(w, t, actor, subArg, verdict, tok) ==
  LET sid == ResolveSubmissionForReview(w, t, subArg)
  IN  IF ~ReviewTokenOk(w, tok, actor) \/ t \notin DOMAIN w.tasks \/ sid = 0
      THEN [ok |-> FALSE, w |-> w, arg |-> 0]
      ELSE IF w.subs[sid].status # "open" THEN [ok |-> FALSE, w |-> w, arg |-> 0]
      ELSE
       LET task == w.tasks[t]
           sub  == w.subs[sid]
           w1 == [w EXCEPT !.subs[sid].status = verdict]
           w2 == AckLeadInboxByRef(w1, SubRef(sid))
           w3 == IF task.claimedBy # ""
                 THEN PushToWorkerInbox(w2, task.claimedBy, t, "review_result", SubRef(sid),
                                        IF verdict = "approved" THEN "done" ELSE "pending")
                 ELSE w2
           w4 == [w3 EXCEPT !.tasks[t] = Reviewed(task, sub, verdict, tok),
                            !.tokens[tok].attached = TRUE]
       IN  [ok |-> TRUE,
            w  |-> AppendEvent(w4, IF verdict = "approved" THEN "issue_task_resolved"
                                   ELSE "issue_task_reviewed", t),
            arg |-> sid]

\* reviewIssueTask(task_id, submission_id, verdict, next_step_token)
ReviewTask(t, subArg, verdict, tok) ==
  /\ LET r == ReviewSection(Cur, t, Lead, subArg, verdict, tok)
     IN  Commit(r.w) /\ last' = IF r.ok
                                 THEN [op |-> "reviewIssueTask", ok |-> TRUE, who |-> Lead,
                                       arg |-> t, sub |-> r.arg, verdict |-> verdict]
                                 ELSE Ret("reviewIssueTask", FALSE, Lead, 0)
  /\ UNCHANGED << now, calls >>

\* ------------------------------------------------ submitIssueTask: the wait for the review

SettledNever(w, s) == FALSE

\* pollSubmissionStatus: the submission was found and is no longer open
Settled(w, s) == s \in DOMAIN w.subs /\ w.subs[s].status # "open"

TimeExpiredNever(deadline) == FALSE

\* timeExpired(deadline)
TimeExpired(deadline) == now > deadline

\* submitIssueTask: the sweep, the critical section, and the deadline of the wait that
\* follows it
SubmitTaskAndWait(actor, t, files) ==
  /\ actor \notin DOMAIN calls
  /\ LET r == SubmitSection(Sweep(Cur), t, actor, files)
     IN  /\ Commit(r.w)
         /\ IF r.ok
            THEN /\ calls' = With(calls, actor, [at |-> "poll", task |-> t, sub |-> r.arg,
                                                 deadline |-> now + DefaultTimeout])
                 /\ UNCHANGED last
            ELSE last' = Ret("submitIssueTask", FALSE, actor, 0) /\ UNCHANGED calls
  /\ UNCHANGED now

\* pollSubmissionStatus: one read of the submission under the store lock; a submission
\* that is no longer open ends the wait
PollSubmissionRead(actor) ==
  /\ actor \in DOMAIN calls /\ calls[actor].at = "poll"
  /\ calls' = [calls EXCEPT ![actor] =
                 IF Settled(Cur, @.sub)
                 THEN [at |-> "return", task |-> @.task, sub |-> @.sub,
                       verdict |-> subs[@.sub].status]
                 ELSE [@ EXCEPT !.at = "check"]]
  /\ UNCHANGED << now, last, issueVars, lockVars, delivVars, ids >>

\* pollSubmissionStatus: after a read that did not end the wait, the deadline is tested;
\* the call returns the timeout error or sleeps and polls again
PollSubmissionCheck(actor) ==
  /\ actor \in DOMAIN calls /\ calls[actor].at = "check"
  /\ IF TimeExpired(calls[actor].deadline)
     THEN /\ calls' = Without(calls, {actor})
          /\ last' = Ret("submitIssueTask", FALSE, actor, calls[actor].task)
     ELSE /\ calls' = [calls EXCEPT ![actor].at = "poll"]
          /\ UNCHANGED last
  /\ UNCHANGED << now, issueVars, lockVars, delivVars, ids >>

\* submitIssueTask returns GetTask: a sweep, then the task as it is stored now
SubmitReturns(actor) ==
  /\ actor \in DOMAIN calls /\ calls[actor].at = "return"
  /\ LET w == Sweep(Cur)
     IN  /\ Commit(w)
         /\ last' = [op |-> "submitIssueTask", ok |-> TRUE, who |-> actor,
                     arg |-> calls[actor].task, sub |-> calls[actor].sub,
                     verdict |-> calls[actor].verdict,
                     status |-> w.tasks[calls[actor].task].status]
  /\ calls' = Without(calls, {actor})
  /\ UNCHANGED now

\* ============================================================ next-step tokens

BaseDifficultyByPoints(total) ==
  IF total >= 30 THEN "focus" ELSE IF total >= 10 THEN "medium" ELSE "easy"

DowngradeDifficulty(d) == IF d = "focus" THEN "medium" ELSE "easy"

DifficultyFallbackOrder(d) ==
  IF d = "focus" THEN << "focus", "medium", "easy" >>
  ELSE IF d = "medium" THEN << "medium", "easy" >> ELSE << "easy" >>

\* pickTaskByTier over a set of task numbers, 0 when it is empty: sorted by points
\* descending then id, the pick is the first, the last or the middle one
PickTaskByTier(w, cands, total) ==
  LET before(a, b) == w.tasks[a].points > w.tasks[b].points
                      \/ (w.tasks[a].points = w.tasks[b].points /\ a < b)
      at(k) == CHOOSE c \in cands : Cardinality({x \in cands : before(x, c)}) = k
      n == Cardinality(cands)
  IN  IF n = 0 THEN 0
      ELSE IF total >= 100 THEN at(0)
      ELSE IF total >= 30 /\ total < 50 THEN at(n - 1)
      ELSE at(n \div 2)

RECURSIVE ChooseByDifficulty(_, _, _, _)
ChooseByDifficulty(w, order, i, total) ==
  IF i > Len(order) THEN 0
  ELSE LET cands == {t \in DOMAIN w.tasks : w.tasks[t].status = "open"
                                             /\ w.tasks[t].difficulty = order[i]}
           c == PickTaskByTier(w, cands, total)
       IN  IF c # 0 THEN c ELSE ChooseByDifficulty(w, order, i + 1, total)

NewToken(actor, type, t) ==
  [actor |-> actor, nsType |-> type, nsTask |-> t, attached |-> FALSE, used |-> FALSE]

\* the critical section of IssueService.GetNextStepToken
NextStepSection(w, actor, finished, worker, score) ==
  IF finished \notin DOMAIN w.tasks THEN [ok |-> FALSE, w |-> w, arg |-> 0]
  ELSE
   LET st      == w.points[worker]
       total   == st.total + w.tasks[finished].points
       base    == BaseDifficultyByPoints(total)
       low     == IF score < 2 THEN st.low + 1 ELSE 0
       allowed == IF total >= 100 THEN 2 ELSE IF total >= 50 THEN 1 ELSE 0
       diff    == IF score < 2 /\ low > allowed THEN DowngradeDifficulty(base) ELSE base
       w1      == [w EXCEPT !.points[worker] = [total |-> total, low |-> low]]
       chosen  == ChooseByDifficulty(w1, DifficultyFallbackOrder(diff), 1, total)
       id      == w.ids.tok
   IN  IF chosen = 0
       THEN [ok |-> TRUE, arg |-> id,
             w |-> [w1 EXCEPT !.tokens = With(@, id, NewToken(actor, "end", 0)),
                              !.ids.tok = @ + 1]]
       ELSE IF w1.tasks[chosen].resTok # 0 /\ w1.tasks[chosen].resUntil > 0
               /\ now <= w1.tasks[chosen].resUntil
       THEN [ok |-> FALSE, w |-> w1, arg |-> 0]
       ELSE [ok |-> TRUE, arg |-> id,
             w |-> [w1 EXCEPT !.tokens = With(@, id, NewToken(actor, "claim_task", chosen)),
                              !.ids.tok = @ + 1,
                              !.tasks[chosen].resTok = id,
                              !.tasks[chosen].resUntil = now + ReserveTTL]]

\* getNextStepToken(task_id, worker_id, completion_score)
GetNextStepToken(finished, worker, score) ==
  /\ LET r == NextStepSection(Cur, Lead, finished, worker, score)
     IN  Commit(r.w) /\ last' = Ret("getNextStepToken", r.ok, worker, r.arg)
  /\ UNCHANGED << now, calls >>

\* ============================================================ task messages

\* resolveMessageForReply: a given message_id is read as is; otherwise the oldest open
\* message of the task, the first listed among equals; 0 when there is none
ResolveMessageForReply(w, t, msgArg) ==
  IF msgArg # 0 THEN (IF msgArg \in DOMAIN w.msgs THEN msgArg ELSE 0)
  ELSE LET open == {x \in DOMAIN w.msgs : w.msgs[x].task = t /\ w.msgs[x].status = "open"}
           best == {x \in open : \A y \in open :
                      w.msgs[x].created < w.msgs[y].created
                      \/ (w.msgs[x].created = w.msgs[y].created /\ x <= y)}
       IN  IF open = {} THEN 0 ELSE CHOOSE x \in best : TRUE

\* PostTaskMessage: a question or a blocker blocks a task that is in progress
AfterPost(kind, status) ==
  IF kind \in {"question", "blocker"} /\ status = "in_progress" THEN "blocked" ELSE status

AfterReplyStays(status) == status

\* ReplyTaskMessage: a reply unblocks a blocked task
AfterReply(status) == IF status = "blocked" THEN "in_progress" ELSE status

\* the critical section of IssueService.PostTaskMessage
PostMessageSection(w, t, actor, kind) ==
  IF t \notin DOMAIN w.tasks THEN [ok |-> FALSE, w |-> w, arg |-> 0]
  ELSE
   LET task == w.tasks[t]
       id   == w.ids.msg
   IN  IF kind # "reply" /\ (task.claimedBy = "" \/ task.claimedBy # actor)
       THEN [ok |-> FALSE, w |-> w, arg |-> 0]
       ELSE LET w1 == [w EXCEPT !.msgs = With(@, id, [task |-> t, sender |-> actor,
                                                      kind |-> kind, status |-> "open",
                                                      created |-> now]),
                                !.ids.msg = @ + 1,
                                !.tasks[t].status = AfterPost(kind, @)]
                w2 == PushToLeadInbox(w1, t, kind, MsgRef(id))
            IN  [ok |-> TRUE, w |-> AppendEvent(w2, "issue_task_message", t), arg |-> id]

\* postIssueTaskMessage / the posting half of askIssueTask
PostTaskMessage(actor, t, kind) ==
  /\ LET r == PostMessageSection(Cur, t, actor, kind)
     IN  Commit(r.w) /\ last' = Ret("postIssueTaskMessage", r.ok, actor, r.arg)
  /\ UNCHANGED << now, calls >>

\* the critical section of IssueService.ReplyTaskMessage
ReplySection(w, t, actor, msgArg) ==
  LET mid == ResolveMessageForReply(w, t, msgArg)
  IN  IF t \notin DOMAIN w.tasks \/ mid = 0 THEN [ok |-> FALSE, w |-> w, arg |-> 0]
      ELSE IF w.msgs[mid].status \in {"replied", "resolved"}
      THEN [ok |-> FALSE, w |-> w, arg |-> 0]
      ELSE
       LET task == w.tasks[t]
           w1 == AckLeadInboxByRef([w EXCEPT !.msgs[mid].status = "replied"], MsgRef(mid))
           w2 == IF task.claimedBy # ""
                 THEN PushToWorkerInbox(w1, task.claimedBy, t, "reply", MsgRef(mid), "pending")
                 ELSE w1
           w3 == [w2 EXCEPT !.tasks[t].status = AfterReply(@)]
       IN  [ok |-> TRUE, w |-> AppendEvent(w3, "issue_task_message", t), arg |-> mid]

\* replyIssueTaskMessage(task_id, message_id)
ReplyTaskMessage(t, msgArg) ==
  /\ LET r == ReplySection(Cur, t, Lead, msgArg)
     IN  Commit(r.w) /\ last' = Ret("replyIssueTaskMessage", r.ok, Lead, r.arg)
  /\ UNCHANGED << now, calls >>

\* extendIssueTaskLease(worker_id, task_id, extend_sec)
ExtendIssueTaskLease(actor, t, ext) ==
  /\ t \in DOMAIN tasks
  /\ LET ok == tasks[t].claimedBy = actor
               /\ tasks[t].status \in {"in_progress", "blocked", "submitted"}
     IN  /\ tasks' = IF ok THEN [tasks EXCEPT ![t].lease = CalcLeaseExpiry(ext, TaskTTL)]
                     ELSE tasks
         /\ last' = Ret("extendIssueTaskLease", ok, actor, t)
  /\ UNCHANGED << now, issue, meta, events, subs, msgs, tokens, leadInbox, workerInbox,
                  points, lockVars, delivVars, ids, calls >>

\* ============================================================ claiming from the inboxes

Leads     == {"lead", "lead-b"}
Acceptors == {"acceptor", "acceptor-b"}

\* the stale test of the mutated variant: any processing item counts as stale
StaleClaimAnyProcessing(item) == item.status = "processing"

\* item.Status == InboxProcessing && item.ClaimExpiresAtMs > 0 && nowMs > item.ClaimExpiresAtMs
StaleClaim(item) == item.status = "processing" /\ item.claimExp > 0 /\ now > item.claimExp

ResetClaimNot(item) == item

\* a stale claim is given up: status pending, claimed_by and claim_expires_at_ms cleared
ResetClaim(item) == [item EXCEPT !.status = "pending", !.claimedBy = "", !.claimExp = 0]

TakeClaim(item, claimer) ==
  [item EXCEPT !.status = "processing", !.claimedBy = claimer,
               !.claimExp = now + InboxClaimTTL]

\* the files of an inbox directory come sorted by name: the smallest id first
FirstOf(todo) == CHOOSE x \in todo : \A y \in todo : x <= y

\* sweepInboxClaims: the directory is listed before the lock is taken; an item removed
\* since is skipped, one added since is pending, so the listing of the locked section
\* gives the same result
SweepInboxSection(w) ==
  [w EXCEPT !.leadInbox = [i \in DOMAIN w.leadInbox |->
                             IF StaleClaim(w.leadInbox[i]) THEN ResetClaim(w.leadInbox[i])
                             ELSE w.leadInbox[i]]]

\* the loop of claimLeadInboxItem: stale claims are reset all along the directory, the
\* first pending item is taken; result = 0 stands for nil
RECURSIVE ClaimLeadLoop(_, _, _, _)
ClaimLeadLoop(inbox, todo, claimer, result) ==
  IF todo = {} THEN [inbox |-> inbox, arg |-> result]
  ELSE LET i    == FirstOf(todo)
           it1  == IF StaleClaim(inbox[i]) THEN ResetClaim(inbox[i]) ELSE inbox[i]
           take == it1.status = "pending" /\ result = 0
           it2  == IF take THEN TakeClaim(it1, claimer) ELSE it1
       IN  ClaimLeadLoop([inbox EXCEPT ![i] = it2], todo \ {i}, claimer,
                         IF take THEN i ELSE result)

\* the loop of claimAcceptorDeliveryInboxItemLocked: it returns at the first item taken
RECURSIVE ClaimAcceptorLoop(_, _, _)
ClaimAcceptorLoop(inbox, todo, claimer) ==
  IF todo = {} THEN [inbox |-> inbox, arg |-> 0]
  ELSE LET i   == FirstOf(todo)
           it1 == IF StaleClaim(inbox[i]) THEN ResetClaim(inbox[i]) ELSE inbox[i]
       IN  IF inbox[i].type # "delivery" THEN ClaimAcceptorLoop(inbox, todo \ {i}, claimer)
           ELSE IF it1.status # "pending"
           THEN ClaimAcceptorLoop([inbox EXCEPT ![i] = it1], todo \ {i}, claimer)
           ELSE [inbox |-> [inbox EXCEPT ![i] = TakeClaim(it1, claimer)], arg |-> i]

\* normalizeTimeoutSec: a timeout that is not positive or lies below the default
\* timeout becomes the default timeout
NormalizeTimeoutSec(timeoutSec) ==
  IF timeoutSec <= 0 THEN DefaultTimeout
  ELSE IF timeoutSec < DefaultTimeout THEN DefaultTimeout ELSE timeoutSec

\* IssueService.deadline
Deadline(timeoutSec) == now + (IF timeoutSec <= 0 THEN DefaultTimeout ELSE timeoutSec)

\* waitIssueTaskEvents up to its poll loop: sweep, then return empty unless the issue is
\* live and has a task that is neither done nor canceled
WaitIssueTaskEvents(actor) ==
  /\ issue.status # None
  /\ actor \notin DOMAIN calls
  /\ LET w  == Sweep(Cur)
         go == /\ w.issue.status \notin {"done", "canceled"}
               /\ \E t \in DOMAIN w.tasks : w.tasks[t].status \notin {"done", "canceled"}
     IN  /\ Commit(w)
         /\ IF go THEN calls' = With(calls, actor, [at |-> "sweep"]) /\ UNCHANGED last
            ELSE last' = Ret("waitIssueTaskEvents", TRUE, actor, 0) /\ UNCHANGED calls
  /\ UNCHANGED now

\* waitIssueTaskEvents: the sweep of stale claims before the poll loop
SweepInboxClaims(actor) ==
  /\ actor \in DOMAIN calls /\ calls[actor].at = "sweep"
  /\ Commit(SweepInboxSection(Cur))
  /\ calls' = [calls EXCEPT ![actor] =
                 [at |-> "poll", deadline |-> Deadline(NormalizeTimeoutSec(DefaultTimeout))]]
  /\ UNCHANGED << now, last >>

\* claimLeadInboxBlocking: one round of the loop; the call returns with the item it
\* claimed, or polls again
ClaimLeadInboxItem(actor) ==
  /\ actor \in DOMAIN calls /\ calls[actor].at = "poll"
  /\ LET r == ClaimLeadLoop(leadInbox, DOMAIN leadInbox, actor, 0)
     IN  /\ r.arg # 0
         /\ leadInbox' = r.inbox
         /\ last' = Ret("waitIssueTaskEvents", TRUE, actor, r.arg)
  /\ calls' = Without(calls, {actor})
  /\ UNCHANGED << now, issue, meta, events, tasks, subs, msgs, tokens, workerInbox, points,
                  lockVars, delivVars, ids >>

\* claimLeadInboxBlocking: a round of the loop that finds nothing to claim and the
\* deadline passed
ClaimLeadInboxTimeout(actor) ==
  /\ actor \in DOMAIN calls /\ calls[actor].at = "poll"
  /\ ClaimLeadLoop(leadInbox, DOMAIN leadInbox, actor, 0).arg = 0
  /\ TimeExpired(calls[actor].deadline)
  /\ calls' = Without(calls, {actor})
  /\ last' = Ret("waitIssueTaskEvents", TRUE, actor, 0)
  /\ UNCHANGED << now, issueVars, lockVars, delivVars, ids >>

\* pushToAcceptorInboxLocked(delivery_id)
PushToAcceptorInbox(d) ==
  /\ accInbox' = With(accInbox, ids.inbox,
                      [type |-> "delivery", ref |-> d, status |-> "pending",
                       claimedBy |-> "", claimExp |-> 0])
  /\ ids' = [ids EXCEPT !.inbox = @ + 1]
  /\ UNCHANGED << now, issueVars, lockVars, deliveries, calls, last >>

\* ackAcceptorInboxByDeliveryLocked(delivery_id)
AckAcceptorInboxByDelivery(d) ==
  /\ accInbox' = [i \in DOMAIN accInbox |->
                    IF accInbox[i].type = "delivery" /\ accInbox[i].ref = d
                       /\ accInbox[i].status # "done"
                    THEN [accInbox[i] EXCEPT !.status = "done"] ELSE accInbox[i]]
  /\ UNCHANGED << now, issueVars, lockVars, deliveries, ids, calls, last >>

\* claimAcceptorDeliveryInboxBlocking: one round of its loop, a critical section
\* around claimAcceptorDeliveryInboxItemLocked; arg = 0 when it found nothing to claim
ClaimAcceptorDeliveryInboxItem(claimer) ==
  /\ LET r == ClaimAcceptorLoop(accInbox, DOMAIN accInbox, claimer)
     IN  /\ accInbox' = r.inbox
         /\ last' = Ret("claimAcceptorInbox", TRUE, claimer, r.arg)
  /\ UNCHANGED << now, issueVars, lockVars, deliveries, ids, calls >>

\* ============================================================ closing the issue

AllDone(ts) == \A t \in DOMAIN ts : ts[t].status = "done"

Pending(op) == op \in DOMAIN calls

\* closeIssue, first half: sweep, list the tasks and refuse unless all are done
CloseIssueCheck ==
  /\ issue.status # None
  /\ ~Pending("closeIssue")
  /\ LET w == Sweep(Cur)
     IN  /\ Commit(w)
         /\ IF AllDone(w.tasks)
            THEN /\ calls' = With(calls, "closeIssue", [seen |-> Len(w.tasks)])
                 /\ UNCHANGED last
            ELSE /\ last' = Ret("closeIssue", FALSE, Lead, 0)
                 /\ UNCHANGED calls
  /\ UNCHANGED now

\* closeIssue, second half: the critical section that marks the issue done
CloseIssueCommit ==
  /\ Pending("closeIssue")
  /\ Commit(AppendEvent([Cur EXCEPT !.issue.status = "done"], "issue_closed", 0))
  /\ calls' = Without(calls, {"closeIssue"})
  /\ last' = Ret("closeIssue", TRUE, Lead, 0)
  /\ UNCHANGED now

\* reopenIssue
ReopenIssue ==
  /\ issue.status # None
  /\ LET w == Sweep(Cur)
         ok == w.issue.status \in {"done", "canceled"}
     IN  /\ Commit(IF ok THEN AppendEvent([w EXCEPT !.issue.status = "open",
                                                    !.issue.lease = CalcLeaseExpiry(0, IssueTTL)],
                                          "issue_reopened", 0)
                   ELSE w)
         /\ last' = Ret("reopenIssue", ok, Lead, 0)
  /\ UNCHANGED << now, calls >>

\* extendIssueLease(issue_id, extend_sec): one critical section, without a sweep
ExtendIssueLease(extendSec) ==
  /\ issue.status # None
  /\ LET ok == issue.status \in {"open", "in_progress"}
     IN  /\ issue' = IF ok THEN [issue EXCEPT !.lease = CalcLeaseExpiry(extendSec, IssueTTL)]
                     ELSE issue
         /\ last' = Ret("extendIssueLease", ok, Lead, 0)
  /\ UNCHANGED << now, meta, events, tasks, subs, msgs, tokens, leadInbox, workerInbox,
                  points, lockVars, delivVars, ids, calls >>

\* ============================================================ deliveries

\* the de-duplicated union of the changed files cached on the tasks
ChangedUnion(ts) == UNION {ts[t].files : t \in DOMAIN ts}

\* the variant of the count test that lets every list through
InsufficientNever(files, union) == FALSE

\* len(artifacts.ChangedFiles) < len(changedUnion)
Insufficient(files, union) == Len(files) < Cardinality(union)

\* submitDelivery, first half: CreateDelivery validates its input against the tasks it
\* lists, outside the store lock
CreateDeliveryCheck(files) ==
  /\ issue.status # None
  /\ ~Pending("createDelivery")
  /\ IF Len(files) = 0 \/ ~AllDone(tasks) \/ Insufficient(files, ChangedUnion(tasks))
     THEN last' = Ret("submitDelivery", FALSE, Lead, 0) /\ UNCHANGED calls
     ELSE calls' = With(calls, "createDelivery", [files |-> files]) /\ UNCHANGED last
  /\ UNCHANGED << now, issueVars, lockVars, delivVars, ids >>

\* submitDelivery, second half: the sweep and the critical section that writes the
\* Delivery; nothing the sweep does is read by the write
CreateDeliveryCommit ==
  /\ Pending("createDelivery")
  /\ LET w == Sweep(Cur)
         d == [status |-> "open", files |-> calls["createDelivery"].files,
               claimedBy |-> "", lease |-> 0]
     IN  Commit([w EXCEPT !.deliveries = With(@, w.ids.deliv, d), !.ids.deliv = @ + 1])
  /\ calls' = Without(calls, {"createDelivery"})
  /\ last' = Ret("submitDelivery", TRUE, Lead, ids.deliv)
  /\ UNCHANGED now

\* the lease ClaimDelivery grants: extend_sec, else the issue TTL, else the default
\* timeout, and never less than the default timeout
DeliveryTTL(extendSec) ==
  LET t1 == IF extendSec <= 0 THEN IssueTTL ELSE extendSec
      t2 == IF t1 <= 0 THEN DefaultTimeout ELSE t1
  IN  IF t2 < DefaultTimeout THEN DefaultTimeout ELSE t2

\* claimDelivery(delivery_id, extend_sec), called from an acceptor's session; the
\* dispatch hands the service the actor it is given, whatever the session
ClaimDelivery(session, actor, d, extendSec) ==
  /\ LET w  == Sweep(Cur)
         ok == d \in DOMAIN w.deliveries /\ w.deliveries[d].status = "open"
     IN  /\ Commit(IF ok THEN [w EXCEPT !.deliveries[d].status = "in_review",
                                        !.deliveries[d].claimedBy = actor,
                                        !.deliveries[d].lease = now + DeliveryTTL(extendSec)]
                   ELSE w)
         /\ last' = Ret("claimDelivery", ok, session, d)
  /\ UNCHANGED << now, calls >>

\* reviewDelivery(delivery_id, verdict), called from an acceptor's session
ReviewDelivery(session, actor, d, verdict) ==
  /\ LET w  == Sweep(Cur)
         ok == /\ d \in DOMAIN w.deliveries
               /\ w.deliveries[d].status = "in_review"
               /\ w.deliveries[d].claimedBy = actor
     IN  /\ Commit(IF ok THEN [w EXCEPT !.deliveries[d].status = verdict] ELSE w)
         /\ last' = Ret("reviewDelivery", ok, session, d)
  /\ UNCHANGED << now, calls >>

\* the timeout used when none is configured: 3600 s, in minutes
FallbackTimeout == 60

\* NewServer: without a configured minimum the minimum is the default timeout
MinTimeout == DefaultTimeout

\* timeoutWithMin(timeoutSec, minTimeoutSec, defaultTimeoutSec)
TimeoutWithMin(timeoutSec, minTimeoutSec, defaultTimeoutSec) ==
  LET def == IF defaultTimeoutSec <= 0 THEN FallbackTimeout ELSE defaultTimeoutSec
      min == IF minTimeoutSec <= 0 THEN def ELSE minTimeoutSec
  IN  IF timeoutSec <= 0 THEN def
      ELSE IF timeoutSec < min THEN min ELSE timeoutSec

NoTimeRemainsAlways(deadline) == TRUE

\* time.Until(deadline) <= 0
NoTimeRemains(deadline) == deadline - now <= 0

\* ListDeliveries(status): the deliveries in that status
ListDeliveries(w, status) ==
  {d \in DOMAIN w.deliveries : w.deliveries[d].status = status}

\* waitDeliveries(status, timeout_sec), up to the loop: the dispatch applies
\* timeoutWithMin, the service sweeps, normalises the timeout again and fixes the deadline
WaitDeliveries(session, status, timeoutArg) ==
  /\ session \notin DOMAIN calls
  /\ LET viaDispatch == TimeoutWithMin(timeoutArg, MinTimeout, DefaultTimeout)
         timeoutSec  == NormalizeTimeoutSec(viaDispatch)
     IN  calls' = With(calls, session, [at |-> "list", status |-> status,
                                        timeout |-> timeoutArg, since |-> now,
                                        deadline |-> now + timeoutSec])
  /\ Commit(Sweep(Cur))
  /\ UNCHANGED << now, last >>

\* one round of the loop of WaitDeliveries: sweep, list, return what was listed; with
\* nothing listed return the empty list once no time remains, else sleep and go round.
\* The call record and the return carry the request's timeout_sec and the time waited.
WaitDeliveriesPoll(session) ==
  /\ session \in DOMAIN calls /\ calls[session].at = "list"
  /\ LET w  == Sweep(Cur)
         ds == ListDeliveries(w, calls[session].status)
     IN  /\ Commit(w)
         /\ IF ds # {} \/ NoTimeRemains(calls[session].deadline)
            THEN /\ calls' = Without(calls, {session})
                 /\ last' = [op |-> "waitDeliveries", ok |-> TRUE, who |-> session,
                             arg |-> Cardinality(ds), got |-> ds,
                             timeout |-> calls[session].timeout,
                             waited |-> now - calls[session].since]
            ELSE UNCHANGED << calls, last >>
  /\ UNCHANGED now

\* ============================================================ lock manager

ExpiredEarly(lock) == ~(now + 1 < lock.expires)

Expired(lock) == ~(now < lock.expires)          \* !now.Before(expTime)

RemoveLocks(locks, fs) == [f \in Files |-> IF f \in fs THEN NoLock ELSE locks[f]]

\* tryLockFiles: an existing lock stops the caller
Conflict(ex, owner) == ex # NoLock /\ ~Expired(ex) /\ ex.owner # owner

RollbackNothing(locks, acquired) == locks

\* tryLockFiles: the files written so far are removed again on a conflict
Rollback(locks, acquired) == RemoveLocks(locks, {PathHash(f) : f \in acquired})

\* the loop of tryLockFiles over the sorted files; acquired = written so far
RECURSIVE TryLoop(_, _, _, _, _)
TryLoop(files, i, locks, acquired, new) ==
  IF i > Len(files) THEN [ok |-> TRUE, locks |-> locks, undone |-> 0]
  ELSE LET f  == files[i]
           ex == locks[PathHash(f)]
       IN  IF Conflict(ex, new.owner)
           THEN [ok |-> FALSE, locks |-> Rollback(locks, acquired),
                 undone |-> Cardinality(acquired)]
           ELSE TryLoop(files, i + 1, [locks EXCEPT ![PathHash(f)] = new],
                        acquired \cup {f}, new)

\* lockFiles(worker_id, task_id, files, ttl_sec), one attempt.
\* The dispatcher refuses a task_id whose task is not claimed by the caller.
LockFiles(owner, task, raws, ttl) ==
  /\ raws # {}
  /\ LET ttlSec == IF ttl <= 0 THEN DefaultLockTTL ELSE ttl
         files  == Normalize(raws)
         lid    == ids.lease
         new    == [lease |-> lid, owner |-> owner, task |-> task, expires |-> now + ttlSec]
         res    == TryLoop(files, 1, fileLocks, {}, new)
         denied == task # 0 /\ (task \notin DOMAIN tasks \/ tasks[task].claimedBy # owner)
     IN  IF denied
         THEN /\ last' = [op |-> "lockFiles", ok |-> FALSE, who |-> owner, arg |-> 0]
              /\ UNCHANGED << lockVars, ids >>
         ELSE /\ fileLocks' = res.locks
              /\ leases' = IF res.ok
                           THEN [l \in DOMAIN leases \cup {lid} |->
                                   IF l = lid
                                   THEN [owner |-> owner, task |-> task, files |-> files,
                                         expires |-> now + ttlSec]
                                   ELSE leases[l]]
                           ELSE leases
              /\ ids' = [ids EXCEPT !.lease = @ + 1]
              /\ last' = [op |-> "lockFiles", ok |-> res.ok, who |-> owner,
                          arg |-> IF res.ok THEN lid ELSE res.undone]
  /\ UNCHANGED << now, issueVars, delivVars, calls >>

\* The retry timer of LockFiles counts sixteenths of a millisecond: every backoff the
\* loop computes is a whole number of them, as it is a whole number of nanoseconds.
Millis(n) == 16 * n

FirstBackoff == Millis(500)                    \* backoff := 500 * time.Millisecond

BackoffCap == Millis(4000)                     \* 4 * time.Second

\* if backoff < 4*time.Second { backoff = backoff * 3 / 2 }
NextBackoff(backoff) == IF backoff < BackoffCap THEN (backoff * 3) \div 2 ELSE backoff

\* the error of a failed tryLockFiles: the first of the sorted files that another owner
\* holds, with the owner, task and expiry of its lock
LockError(files, owner) ==
  LET held == {i \in 1..Len(files) : Conflict(fileLocks[PathHash(files[i])], owner)}
      i    == CHOOSE x \in held : \A y \in held : x <= y
      lock == fileLocks[PathHash(files[i])]
  IN  IF held = {} THEN << >>
      ELSE << files[i], lock.owner, lock.task, lock.expires >>

\* one attempt of the loop of LockFiles: tryLockFiles and, when it fails, the test of
\* the deadline; pos is the call's record when it goes on to sleep
LockAttempt(owner, pos) ==
  LET ttlSec == IF pos.ttl <= 0 THEN DefaultLockTTL ELSE pos.ttl
      files  == Normalize(pos.raws)
      lid    == ids.lease
      new    == [lease |-> lid, owner |-> owner, task |-> pos.task,
                 expires |-> now + ttlSec]
      res    == TryLoop(files, 1, fileLocks, {}, new)
  IN  /\ fileLocks' = res.locks
      /\ leases' = IF res.ok
                   THEN With(leases, lid, [owner |-> owner, task |-> pos.task,
                                           files |-> files, expires |-> now + ttlSec])
                   ELSE leases
      /\ ids' = [ids EXCEPT !.lease = @ + 1]
      /\ IF res.ok
         THEN /\ calls' = Without(calls, {owner})
              /\ last' = [op |-> "lockFiles", ok |-> TRUE, who |-> owner, arg |-> lid]
         ELSE IF pos.elapsed > pos.deadline        \* time.Now().After(deadline)
         THEN /\ calls' = Without(calls, {owner})
              /\ last' = [op |-> "lockFiles", ok |-> FALSE, who |-> owner,
                          arg |-> res.undone, err |-> LockError(files, owner),
                          elapsed |-> pos.elapsed]
         ELSE /\ calls' = With(calls, owner, [pos EXCEPT !.at = "sleep"])
              /\ UNCHANGED last
      /\ UNCHANGED << now, issueVars, delivVars >>

\* lockFiles(worker_id, files, ttl_sec, wait_sec) with wait_sec > 0: the first attempt
LockFilesWait(owner, raws, ttl, waitSec) ==
  /\ raws # {} /\ waitSec > 0
  /\ owner \notin DOMAIN calls
  /\ LockAttempt(owner, [at |-> "try", task |-> 0, raws |-> raws, ttl |-> ttl,
                         deadline |-> Millis(1000 * waitSec), elapsed |-> 0,
                         backoff |-> FirstBackoff, slept |-> 0])

\* time.Sleep(backoff), then the next backoff; slept is the length of this sleep
LockFilesSleep(owner) ==
  /\ owner \in DOMAIN calls /\ calls[owner].at = "sleep"
  /\ calls' = [calls EXCEPT ![owner] =
                 [@ EXCEPT !.at = "try", !.elapsed = @ + calls[owner].backoff,
                           !.slept = calls[owner].backoff,
                           !.backoff = NextBackoff(@)]]
  /\ UNCHANGED << now, last, issueVars, lockVars, delivVars, ids >>

\* the attempt after a sleep
LockFilesRetry(owner) ==
  /\ owner \in DOMAIN calls /\ calls[owner].at = "try"
  /\ LockAttempt(owner, calls[owner])

\* heartbeat(worker_id, lease_id, extend_sec); the dispatcher checks the owner
Heartbeat(owner, lid, ext) ==
  /\ lid \in DOMAIN leases
  /\ leases[lid].owner = owner
  /\ LET extendSec == IF ext <= 0 THEN DefaultLockTTL ELSE ext
         newExp    == now + extendSec
     IN  /\ leases' = [leases EXCEPT ![lid].expires = newExp]
         /\ fileLocks' = [f \in Files |->
                            IF f \in SeqRange(leases[lid].files) /\ fileLocks[f].lease = lid
                            THEN [fileLocks[f] EXCEPT !.expires = newExp]
                            ELSE fileLocks[f]]
  /\ last' = [op |-> "heartbeat", ok |-> TRUE, who |-> owner, arg |-> lid]
  /\ UNCHANGED << now, issueVars, delivVars, ids, calls >>

DropLeaseNot(ls, lid) == ls

\* Unlock, ForceUnlock: store.Remove(leasePath)
DropLease(ls, lid) == [l \in DOMAIN ls \ {lid} |-> ls[l]]

\* unlock(worker_id, lease_id)
Unlock(owner, lid) ==
  /\ lid \in DOMAIN leases
  /\ leases[lid].owner = owner
  /\ fileLocks' = [f \in Files |->
                     IF f \in SeqRange(leases[lid].files) /\ fileLocks[f].lease = lid
                     THEN NoLock ELSE fileLocks[f]]
  /\ leases' = DropLease(leases, lid)
  /\ last' = [op |-> "unlock", ok |-> TRUE, who |-> owner, arg |-> lid]
  /\ UNCHANGED << now, issueVars, delivVars, ids, calls >>

\* forceUnlock(lease_id, reason)
ForceUnlock(lid) ==
  /\ lid \in DOMAIN leases
  /\ fileLocks' = RemoveLocks(fileLocks, SeqRange(leases[lid].files))
  /\ leases' = DropLease(leases, lid)
  /\ last' = [op |-> "forceUnlock", ok |-> TRUE, who |-> Lead, arg |-> lid]
  /\ UNCHANGED << now, issueVars, delivVars, ids, calls >>

LeaseExpired(l) == now > l.expires               \* now.After(expTime)

\* LockService.CleanExpired
CleanExpired ==
  LET dead   == {l \in DOMAIN leases : LeaseExpired(leases[l])}
      byDead == UNION {SeqRange(leases[l].files) : l \in dead}
      locks1 == RemoveLocks(fileLocks, byDead)
      stale  == {f \in Files : locks1[f] # NoLock /\ LeaseExpired(locks1[f])}
  IN  /\ dead # {} \/ stale # {}
      /\ leases' = [l \in DOMAIN leases \ dead |-> leases[l]]
      /\ fileLocks' = RemoveLocks(locks1, stale)
      /\ last' = [op |-> "cleanExpired", ok |-> TRUE, who |-> "", arg |-> 0]
      /\ UNCHANGED << now, issueVars, delivVars, ids, calls >>

LeaseRoom(n) == ids.lease <= n

LockNext ==
  \/ Tick(MaxTime)
  \/ LeaseRoom(MaxLeases) /\ \E o \in Workers, raws \in SUBSET RawFiles, ttl \in {0, 1} :
       LockFiles(o, 0, raws, ttl)
  \/ \E o \in Workers, l \in DOMAIN leases, e \in {0, 1} : Heartbeat(o, l, e)
  \/ \E o \in Workers, l \in DOMAIN leases : Unlock(o, l)
  \/ \E l \in DOMAIN leases : ForceUnlock(l)
  \/ CleanExpired

SpecLock == Init /\ [][LockNext]_vars

MaxRelockTime   == 1
MaxRelockLeases == 3

\* two workers lock one file each and then both files
RelockNext ==
  \/ Tick(MaxRelockTime)
  \/ LeaseRoom(MaxRelockLeases) /\ \E o \in Workers, raws \in (SUBSET Files) \ {{}} :
       LockFiles(o, 0, raws, 0)
  \/ \E o \in Workers, l \in DOMAIN leases : Unlock(o, l)

SpecRelock == Init /\ [][RelockNext]_vars

MaxBackoffTime   == 1
MaxBackoffLeases == 2
MaxWaitSec       == 11

\* w1 waits for a file that w2 holds, for a second and for long enough to reach the cap
BackoffNext ==
  \/ Tick(MaxBackoffTime)
  \/ LeaseRoom(MaxBackoffLeases) /\ LockFiles("w2", 0, {"a.go"}, 0)
  \/ \E o \in Workers, l \in DOMAIN leases : Unlock(o, l)
  \/ LeaseRoom(MaxBackoffLeases) /\ \E ws \in {1, MaxWaitSec} :
       LockFilesWait("w1", {"a.go"}, 0, ws)
  \/ LockFilesSleep("w1")
  \/ LockFilesRetry("w1")

SpecBackoff == Init /\ [][BackoffNext]_vars

\* the lock manager next to the task whose reset removes leases
ResetNext ==
  \/ Tick(MaxResetTime)
  \/ CreateIssue
  \/ Room(MaxResetSeq) /\ TaskRoom(MaxResetTasks) /\ CreateTask("easy", 10)
  \/ Room(MaxResetSeq) /\ \E o \in Workers : ClaimTask(o, 1, 0)
  \/ Room(MaxResetSeq) /\ ResetTask(1)
  \/ LeaseRoom(MaxResetLeases) /\ \E o \in Workers, raws \in ResetRaws :
       LockFiles(o, 1, raws, 1)
  \/ \E o \in Workers, l \in DOMAIN leases : Heartbeat(o, l, 0)
  \/ \E o \in Workers, l \in DOMAIN leases : Unlock(o, l)
  \/ \E l \in DOMAIN leases : ForceUnlock(l)
  \/ CleanExpired

SpecReset == Init /\ [][ResetNext]_vars

\* ============================================================ the task machine

TokenRoom(n, w) == ids.tok <= n /\ points[w].total < MaxPoints

TaskNext ==
  \/ Tick(MaxTaskTime)
  \/ SweepExpired
  \/ Room(MaxSeq) /\ \E o \in Workers, t \in DOMAIN tasks, tok \in {0} \cup DOMAIN tokens :
       ClaimTask(o, t, tok)
  \/ Room(MaxSeq) /\ ids.sub <= MaxSubs /\ \E t \in DOMAIN tasks :
       tasks[t].claimedBy # "" /\ SubmitTask(tasks[t].claimedBy, t, {"a.go"})
  \/ Room(MaxSeq) /\ \E t \in DOMAIN tasks, x \in {0} \cup DOMAIN subs,
                        v \in {"approved", "rejected"}, tok \in DOMAIN tokens :
       ReviewTask(t, x, v, tok)
  \/ \E t \in DOMAIN tasks : TokenRoom(MaxTokens, "w1") /\ GetNextStepToken(t, "w1", 5)

\* two tasks; w1 has claimed task 1 and its submission waits for the lead
Submitted ==
  SubmitSection(ClaimSection(Seeded(2), 1, "w1", 0).w, 1, "w1", {"a.go"}).w

SpecTask == StartOn(Submitted) /\ [][TaskNext]_vars

\* the configured max_task_count
MaxTaskCount  == 2
MaxCreateTime == 2
MaxCreateSeq  == 6

\* IssueService.CountTasks
CountTasks(w) == Cardinality(DOMAIN w.tasks)

\* createIssueTask with a task limit, first half: the count is taken and compared
CreateTaskCount(a) ==
  /\ a \notin DOMAIN calls
  /\ issue.status # None
  /\ IF CountTasks(Cur) >= MaxTaskCount
     THEN last' = Ret("createIssueTask", FALSE, a, 0) /\ UNCHANGED calls
     ELSE calls' = With(calls, a, [at |-> "create"]) /\ UNCHANGED last
  /\ UNCHANGED << now, issueVars, lockVars, delivVars, ids >>

\* createIssueTask with a task limit, second half: IssueService.CreateTask
CreateTaskLimited(a, diff, pts) ==
  /\ a \in DOMAIN calls /\ calls[a].at = "create"
  /\ LET r == CreateTaskSection(Cur, diff, pts)
     IN  Commit(r.w) /\ last' = Ret("createIssueTask", r.ok, a, r.arg)
  /\ calls' = Without(calls, {a})
  /\ UNCHANGED now

\* two lead sessions add tasks under a task limit while workers claim them
CreateNext ==
  \/ Tick(MaxCreateTime)
  \/ SweepExpired
  \/ \E a \in Leads : CreateTaskCount(a)
  \/ \E a \in Leads : CreateTaskLimited(a, "easy", 10)
  \/ Room(MaxCreateSeq) /\ \E o \in Workers, t \in DOMAIN tasks : ClaimTask(o, t, 0)
  \/ Room(MaxCreateSeq) /\ \E t \in DOMAIN tasks : ResetTask(t)

SpecCreate == StartOn(IssueCreated(Blank)) /\ [][CreateNext]_vars

MaxExpireTime == 5
MaxExpireSeq  == 5

\* the issue's lease runs out, is extended and the issue is reopened, while a worker
\* claims the task
ExpireNext ==
  \/ Tick(MaxExpireTime)
  \/ SweepExpired
  \/ Room(MaxExpireSeq) /\ ClaimTask("w1", 1, 0)
  \/ Room(MaxExpireSeq) /\ ReopenIssue
  \/ \E e \in {0, 1} : ExtendIssueLease(e)

SpecExpire == StartOn(Seeded(1)) /\ [][ExpireNext]_vars

MaxReserveTime   == 3
MaxReserveSeq    == 7
MaxReserveTokens == 1

\* the task machine over the time a reservation lasts
ReserveNext ==
  \/ Tick(MaxReserveTime)
  \/ SweepExpired
  \/ \E t \in DOMAIN tasks : TokenRoom(MaxReserveTokens, "w1") /\ GetNextStepToken(t, "w1", 5)
  \/ Room(MaxReserveSeq) /\ \E o \in Workers, t \in DOMAIN tasks, tok \in {0} \cup DOMAIN tokens :
       ClaimTask(o, t, tok)
  \/ Room(MaxReserveSeq) /\ \E t \in DOMAIN tasks, x \in {0} \cup DOMAIN subs,
                               v \in {"approved", "rejected"}, tok \in DOMAIN tokens :
       ReviewTask(t, x, v, tok)

SpecReserve == StartOn(Submitted) /\ [][ReserveNext]_vars

\* one task; w1 has claimed it and its submission waits for the lead
SubmittedOne ==
  SubmitSection(ClaimSection(Seeded(1), 1, "w1", 0).w, 1, "w1", {"a.go"}).w

CloseNext ==
  \/ Tick(MaxCloseTime)
  \/ TokenRoom(MaxCloseTokens, "w1") /\ GetNextStepToken(1, "w1", 5)
  \/ Room(MaxCloseSeq) /\ \E v \in {"approved", "rejected"}, tok \in DOMAIN tokens :
       ReviewTask(1, 0, v, tok)
  \/ Room(MaxCloseSeq) /\ TaskRoom(MaxCloseTasks) /\ CreateTask("easy", 10)
  \/ Room(MaxCloseSeq) /\ \E t \in DOMAIN tasks : ClaimTask("w2", t, 0)
  \/ Room(MaxCloseSeq) /\ \E t \in DOMAIN tasks : ResetTask(t)
  \/ CloseIssueCheck
  \/ Room(MaxCloseSeq) /\ CloseIssueCommit
  \/ Room(MaxCloseSeq) /\ ReopenIssue

\* the lead reviews, resets, adds tasks and closes the issue, possibly from two sessions
SpecClose == StartOn(SubmittedOne) /\ [][CloseNext]_vars

\* one task, claimed and submitted by w1, who then asks the lead a question: two items
\* wait in the lead inbox
Asked == PostMessageSection(SubmittedOne, 1, "w1", "question").w

InboxNext ==
  \/ Tick(MaxInboxTick)
  \/ ClaimTTLPasses(MaxInboxTime)
  \/ \E a \in Leads : \/ WaitIssueTaskEvents(a)
                      \/ SweepInboxClaims(a)
                      \/ ClaimLeadInboxItem(a)
                      \/ ClaimLeadInboxTimeout(a)
  \/ Room(MaxInboxSeq) /\ ReplyTaskMessage(1, 0)
  \/ Room(MaxInboxSeq) /\ ResetTask(1)
  \/ (\A i \in DOMAIN accInbox : accInbox[i].ref # 1) /\ PushToAcceptorInbox(1)
  \/ AckAcceptorInboxByDelivery(1)
  \/ \E c \in Acceptors : ClaimAcceptorDeliveryInboxItem(c)

\* two lead sessions and two acceptors take items from their inboxes while the worker's
\* items are answered, reset and left to expire
SpecInbox == StartOn(Asked) /\ [][InboxNext]_vars

\* submitIssueTask and submitDelivery block until the review: their caller has no
\* second submission, or delivery, waiting for a verdict
NoneWaiting(f) == \A x \in DOMAIN f : f[x].status \notin {"open", "in_review"}

\* one task, claimed by w1; the lead has fetched the next-step token for its review
ClaimedOne ==
  NextStepSection(ClaimSection(Seeded(1), 1, "w1", 0).w, Lead, 1, "w1", 5).w

DeliveryNext ==
  \/ Tick(MaxDelivTime)
  \/ Room(MaxDelivSeq) /\ NoneWaiting(subs) /\ \E fs \in ResetRaws : SubmitTask("w1", 1, fs)
  \/ Room(MaxDelivSeq) /\ \E v \in {"approved", "rejected"}, tok \in DOMAIN tokens :
       ReviewTask(1, 0, v, tok)
  \/ Room(MaxDelivSeq) /\ ResetTask(1)
  \/ ids.deliv <= MaxDeliveries /\ NoneWaiting(deliveries)
       /\ \E fs \in DeliveryFiles : CreateDeliveryCheck(fs)
  \/ CreateDeliveryCommit
  \/ \E a \in Acceptors, d \in DOMAIN deliveries : ClaimDelivery(a, Acceptor, d, 0)
  \/ \E a \in Acceptors, d \in DOMAIN deliveries, v \in {"approved", "rejected"} :
       ReviewDelivery(a, Acceptor, d, v)

\* a worker submits, the lead reviews, resets and delivers, and acceptors review the delivery
SpecDelivery == StartOn(ClaimedOne) /\ [][DeliveryNext]_vars

MaxTimeoutTime == 4
MaxTimeoutArg  == 3

\* the timeout_sec values a caller passes: negative, zero, below, at and above the minimum
TimeoutArgs == -1 .. MaxTimeoutArg

\* an acceptor waits for deliveries with every timeout while the lead delivers
TimeoutNext ==
  \/ Tick(MaxTimeoutTime)
  \/ ids.deliv <= MaxDeliveries /\ CreateDeliveryCheck(<< "a.go" >>)
  \/ CreateDeliveryCommit
  \/ \E st \in {"open", "in_review"}, t \in TimeoutArgs : WaitDeliveries(Acceptor, st, t)
  \/ WaitDeliveriesPoll(Acceptor)

SpecTimeout == StartOn(IssueCreated(Blank)) /\ [][TimeoutNext]_vars

MaxAcceptTime == 2

\* two acceptors wait for deliveries, claim and review while the lead delivers
AcceptNext ==
  \/ Tick(MaxAcceptTime)
  \/ ids.deliv <= MaxDeliveries /\ CreateDeliveryCheck(<< "a.go" >>)
  \/ CreateDeliveryCommit
  \/ \E a \in Acceptors : WaitDeliveries(a, "open", 0)
  \/ \E a \in Acceptors : WaitDeliveriesPoll(a)
  \/ \E a \in Acceptors, d \in DOMAIN deliveries : ClaimDelivery(a, Acceptor, d, 0)
  \/ \E a \in Acceptors, d \in DOMAIN deliveries : ReviewDelivery(a, Acceptor, d, "approved")

SpecAccept == StartOn(IssueCreated(Blank)) /\ [][AcceptNext]_vars

\* ------------------------------------------------ questions and replies

MaxWaitTime == 3
MaxWaitSeq  == 5

\* the lead waits for signals while a worker asks and is answered
WaitNext ==
  \/ Tick(MaxWaitTime)
  \/ WaitIssueTaskEvents(Lead)
  \/ SweepInboxClaims(Lead)
  \/ ClaimLeadInboxItem(Lead)
  \/ ClaimLeadInboxTimeout(Lead)
  \/ Room(MaxWaitSeq) /\ PostTaskMessage("w1", 1, "question")
  \/ Room(MaxWaitSeq) /\ ReplyTaskMessage(1, 0)

\* the sweep before the loop and every round of the poll loop are taken in the end: the
\* loop sleeps 200 ms between rounds and the store lock is handed on
SpecWait ==
  /\ StartOn(ClaimSection(Seeded(1), 1, "w1", 0).w) /\ [][WaitNext]_vars
  /\ WF_vars(SweepInboxClaims(Lead))
  /\ WF_vars(ClaimLeadInboxItem(Lead) \/ ClaimLeadInboxTimeout(Lead))

MaxWipeTime   == 2
MaxWipeSeq    == 6

\* everything that leaves traces of a task, and its reset
WipeNext ==
  \/ Tick(MaxWipeTime)
  \/ Room(MaxWipeSeq) /\ \E o \in Workers, t \in DOMAIN tasks : ClaimTask(o, t, 0)
  \/ DOMAIN leases = {} /\ \E o \in Workers, t \in DOMAIN tasks :
       LockFiles(o, t, {"a.go"}, 0)
  \/ Room(MaxWipeSeq) /\ NoneWaiting(subs) /\ \E t \in DOMAIN tasks :
       tasks[t].claimedBy # "" /\ SubmitTask(tasks[t].claimedBy, t, {"a.go"})
  \/ Room(MaxWipeSeq) /\ msgs = << >> /\ \E t \in DOMAIN tasks :
       tasks[t].claimedBy # "" /\ PostTaskMessage(tasks[t].claimedBy, t, "question")
  \/ Room(MaxWipeSeq) /\ \E t \in DOMAIN tasks, v \in {"approved", "rejected"},
                            tok \in DOMAIN tokens : ReviewTask(t, 0, v, tok)
  \/ DOMAIN tokens = {} /\ points["w1"].total < MaxPoints
       /\ \E t \in DOMAIN tasks : GetNextStepToken(t, "w1", 5)
  \/ \E t \in DOMAIN tasks, n \in DocNames : WriteTaskDoc("w1", t, n)
  \/ Room(MaxWipeSeq) /\ \E t \in DOMAIN tasks : ResetTask(t)

SpecWipe == StartOn(Seeded(1)) /\ [][WipeNext]_vars

MaxMsgTime == 2
MaxMsgSeq  == 6

MessageNext ==
  \/ Tick(MaxMsgTime)
  \/ SweepExpired
  \/ Room(MaxMsgSeq) /\ \E o \in Workers, t \in DOMAIN tasks : ClaimTask(o, t, 0)
  \/ Room(MaxMsgSeq) /\ \E o \in Workers, t \in DOMAIN tasks,
                           k \in {"question", "blocker", "info"} : PostTaskMessage(o, t, k)
  \/ Room(MaxMsgSeq) /\ \E t \in DOMAIN tasks, m \in {0} \cup DOMAIN msgs :
                           ReplyTaskMessage(t, m)
  \/ \E o \in Workers, t \in DOMAIN tasks : ExtendIssueTaskLease(o, t, 0)

SpecMessage == StartOn(Seeded(1)) /\ [][MessageNext]_vars

MaxPostTime == 2
MaxPostSeq  == 5

\* the kind argument of postIssueTaskMessage is passed on as given
PostKinds == {"question", "blocker", "reply"}

\* two workers post messages of every kind on a task that one of them has claimed
PostNext ==
  \/ Tick(MaxPostTime)
  \/ SweepExpired
  \/ Room(MaxPostSeq) /\ \E o \in Workers : ClaimTask(o, 1, 0)
  \/ Room(MaxPostSeq) /\ \E o \in Workers, k \in PostKinds : PostTaskMessage(o, 1, k)

SpecPost == StartOn(ClaimSection(Seeded(1), 1, "w1", 0).w) /\ [][PostNext]_vars

MaxPointsTime   == 1
MaxPointsSeq    == 7
MaxPointsTokens == 3
MaxPointsTotal  == 30

\* the lead asks for next steps, with any score and more than once, and reviews
PointsNext ==
  \/ Tick(MaxPointsTime)
  \/ ids.tok <= MaxPointsTokens /\ points["w1"].total < MaxPointsTotal
       /\ \E t \in DOMAIN tasks, sc \in {1, 5} : GetNextStepToken(t, "w1", sc)
  \/ Room(MaxPointsSeq) /\ \E v \in {"approved", "rejected"}, tok \in DOMAIN tokens :
       ReviewTask(1, 0, v, tok)
  \/ Room(MaxPointsSeq) /\ \E t \in DOMAIN tasks, tok \in DOMAIN tokens :
       ClaimTask("w1", t, tok)

SpecPoints == StartOn(Submitted) /\ [][PointsNext]_vars

\* ------------------------------------------------ a worker waiting for its review

MaxSubmitTime == 6
MaxSubmitSeq  == 7

SubmitNext ==
  \/ Tick(MaxSubmitTime)
  \/ Room(MaxSubmitSeq) /\ ClaimTask("w1", 1, 0)
  \/ Room(MaxSubmitSeq) /\ SubmitTaskAndWait("w1", 1, {"a.go"})
  \/ PollSubmissionRead("w1")
  \/ PollSubmissionCheck("w1")
  \/ SubmitReturns("w1")
  \/ Room(MaxSubmitSeq) /\ \E v \in {"approved", "rejected"}, tok \in DOMAIN tokens :
                             ReviewTask(1, 0, v, tok)
  \/ Room(MaxSubmitSeq) /\ ResetTask(1)
  \/ SweepExpired

\* the waiting call is a running loop: it takes the store lock (a blocking flock), reads,
\* tests its deadline, sleeps 200 ms and goes round again, so each of its steps is taken
\* once it is due
SpecSubmit ==
  /\ StartOn(ClaimedOne) /\ [][SubmitNext]_vars
  /\ WF_vars(PollSubmissionRead("w1"))
  /\ WF_vars(PollSubmissionCheck("w1"))
  /\ WF_vars(SubmitReturns("w1"))

\* ============================================================ task claims

\* C1: in every reachable state a task that is in_progress or blocked has a
\* non-empty claimed_by, and an open task has empty claimed_by and submitter.
C1_StatusOwnerInvariant ==
  \A t \in DOMAIN tasks :
     /\ tasks[t].status \in {"in_progress", "blocked"} => tasks[t].claimedBy # ""
     /\ tasks[t].status = "open" => tasks[t].claimedBy = "" /\ tasks[t].submitter = ""

ClaimSucceeds == last'.op = "claimIssueTask" /\ last'.ok /\ events' # events

C7_ClaimOnlyWhenOpen ==
  [][/\ ClaimSucceeds =>
          /\ Sweep(Cur).tasks[last'.arg].status = "open"
          /\ tasks'[last'.arg].status = "in_progress"
          /\ tasks'[last'.arg].claimedBy = last'.who
     /\ last'.op = "claimIssueTask" /\ ~last'.ok /\ last' # last =>
          tasks'[last'.arg] = Sweep(Cur).tasks[last'.arg]]_vars

\* the later of two claims on one task: it failed, the task stays with the earlier caller
C7_Witness ==
  /\ last.op = "claimIssueTask" /\ ~last.ok
  /\ tasks[last.arg].status = "in_progress"
  /\ tasks[last.arg].claimedBy \in Workers \ {last.who}
  /\ \E i \in DOMAIN events : events[i].type = "issue_task_claimed" /\ events[i].task = 2

\* a reservation that has not expired
LiveReservation(task) == task.resTok # 0 /\ ~(task.resUntil > 0 /\ now > task.resUntil)

\* C11: while a task holds an unexpired reservation, a claimIssueTask call without the
\* reserved token fails and leaves the task as it is; the call with the reserved token,
\* once a review has attached the token, succeeds, hands the task to the caller and
\* marks the token used.
C11_ReservedTaskNeedsItsToken ==
  [][\A o \in Workers, t \in DOMAIN tasks, tok \in {0} \cup DOMAIN tokens :
       LET task == Sweep(Cur).tasks[t]
       IN  ClaimTask(o, t, tok) /\ LiveReservation(task) =>
             /\ tok # task.resTok => ~last'.ok /\ tasks'[t] = task
             /\ tok = task.resTok /\ tokens[tok].attached /\ ~tokens[tok].used =>
                   /\ last'.ok
                   /\ tasks'[t].claimedBy = o
                   /\ tokens'[tok].used]_vars

\* C21: getNextStepToken reserves a task for ReserveTTL from the time of the call;
\* the passing of time and the sweep leave a reservation and its token as they are;
\* and once reserved_until_ms has passed, a claimIssueTask call without a token on the
\* reserved task, which is still open, succeeds: the task goes to the caller and the
\* reservation is cleared, with no token examined or changed.
C21_LapsedReservationNeedsNoToken ==
  [][/\ \A t \in DOMAIN tasks :
          tasks'[t].resTok # 0 /\ tasks'[t].resTok # tasks[t].resTok =>
             last'.op = "getNextStepToken" /\ tasks'[t].resUntil = now + ReserveTTL
     /\ (now' # now \/ SweepExpired) =>
          /\ tokens' = tokens
          /\ \A t \in DOMAIN tasks :
               tasks'[t].resTok = tasks[t].resTok /\ tasks'[t].resUntil = tasks[t].resUntil
     /\ last'.op = "claimIssueTask" =>
          \A o \in Workers, t \in DOMAIN tasks :
            LET task == Sweep(Cur).tasks[t]
            IN  /\ ClaimTask(o, t, 0)
                /\ task.resTok # 0 /\ task.resUntil > 0 /\ now > task.resUntil
                /\ task.status = "open"
                =>
                /\ last'.ok
                /\ tasks'[t].status = "in_progress" /\ tasks'[t].claimedBy = o
                /\ tasks'[t].resTok = 0 /\ tasks'[t].resUntil = 0
                /\ tokens' = tokens]_vars

\* a task was reserved, nobody came with the token, and after the reservation's time
\* a worker has claimed it without a token
C21_Witness ==
  /\ last.op = "claimIssueTask" /\ last.ok /\ last.tok = 0
  /\ now > ReserveTTL
  /\ tasks[last.arg].claimedBy = last.who /\ tasks[last.arg].resTok = 0
  /\ \E k \in DOMAIN tokens :
       tokens[k].nsType = "claim_task" /\ tokens[k].nsTask = last.arg /\ ~tokens[k].used
  /\ Cardinality({i \in DOMAIN events : events[i].type = "issue_task_claimed"
                                         /\ events[i].task = last.arg}) = 1

\* C33 as stated: a claimIssueTask call that returns an error leaves the whole store as
\* it was, and in particular the used flag of every next-step token.
C33_FailedClaimChangesNothing ==
  [][(/\ last'.op = "claimIssueTask" /\ ~last'.ok
      /\ \E t \in DOMAIN tasks, tok \in {0} \cup DOMAIN tokens :
           ClaimTask(last'.who, t, tok)) =>
       /\ \A k \in DOMAIN tokens : tokens'[k].used = tokens[k].used
       /\ Cur' = Cur]_vars

\* C35 as stated: a task that is done is still done after every step that is not a
\* resetIssueTask of that task.
C35_DoneStaysDone ==
  [][\A t \in DOMAIN tasks :
       (/\ tasks[t].status = "done"
        /\ ~(last'.op = "resetIssueTask" /\ last'.ok /\ last'.arg = t)) =>
         tasks'[t].status = "done"]_vars

\* C36: a task T becomes done only through the approval of a submission whose task is T
\* and whose worker is T's current claimed_by; a submission of another task, or one left
\* over from a claim that has since expired, cannot complete T.
C36_DoneOnlyByClaimantsSubmission ==
  [][\A t \in DOMAIN tasks :
       tasks[t].status # "done" /\ tasks'[t].status = "done" =>
         /\ last'.op = "reviewIssueTask" /\ last'.ok /\ last'.verdict = "approved"
         /\ subs[last'.sub].task = t
         /\ subs[last'.sub].worker = tasks[t].claimedBy
         /\ tasks[t].claimedBy # ""]_vars

\* C37: a next-step token authorises at most one review: once a reviewIssueTask has
\* attached a token, no other reviewIssueTask succeeds with the same token.
C37_TokenReviewsOnce ==
  [][\A tok \in DOMAIN tokens :
       tokens[tok].attached =>
         ~(/\ last'.op = "reviewIssueTask" /\ last'.ok
           /\ \E t \in DOMAIN tasks, x \in {0} \cup DOMAIN subs,
                 v \in {"approved", "rejected"} : ReviewTask(t, x, v, tok))]_vars

RECURSIVE PointsOfTasks(_)
PointsOfTasks(n) == IF n = 0 THEN 0 ELSE tasks[n].points + PointsOfTasks(n - 1)

\* C40: a worker's total_points grows by a finished task's points at most once per
\* finished task, however many times getNextStepToken is called: the total never
\* exceeds the points of all the tasks of the issue taken once each.
C40_PointsOncePerTask ==
  \A w \in Workers : points[w].total <= PointsOfTasks(Len(tasks))

\* C13: submitIssueTask leaves the status of every task as its entry sweep left it, and
\* a task's status becomes done only in a successful reviewIssueTask call on that task
\* that approves one of the task's own submissions.
C13_DoneOnlyByOwnApproval ==
  [][/\ \A a \in Workers, t \in DOMAIN tasks, fs \in SUBSET Files :
          SubmitTask(a, t, fs) =>
            \A u \in DOMAIN tasks : tasks'[u].status = Sweep(Cur).tasks[u].status
     /\ \A t \in DOMAIN tasks \cap DOMAIN tasks' :
          tasks[t].status # "done" /\ tasks'[t].status = "done" =>
            /\ last'.op = "reviewIssueTask" /\ last'.ok /\ last'.arg = t
            /\ last'.verdict = "approved"
            /\ subs'[last'.sub].status = "approved"
            /\ subs'[last'.sub].task = t]_vars

\* ------------------------------------------------ the sweep of lapsed task leases

\* a step of a call that runs SweepExpired on entry
SweepingCall ==
  \/ SweepExpired
  \/ /\ last'.op = "claimIssueTask"
     /\ \E t \in DOMAIN tasks, tok \in {0} \cup DOMAIN tokens : ClaimTask(last'.who, t, tok)
  \/ /\ last'.op = "submitIssueTask"
     /\ \E t \in DOMAIN tasks, fs \in SUBSET Files : SubmitTask(last'.who, t, fs)

LeasePassed(t) ==
  tasks[t].status = "in_progress" /\ tasks[t].lease > 0 /\ now > tasks[t].lease

Waiting(a) == a \in DOMAIN calls /\ calls[a].at \in {"poll", "check"}

\* the submission the call waits for carries the verdict v
ReviewedWhileWaiting(a, v) ==
  Waiting(a) /\ calls[a].sub \in DOMAIN subs /\ subs[calls[a].sub].status = v

\* the call has returned the verdict v
ReturnedVerdict(a, v) ==
  last.op = "submitIssueTask" /\ last.ok /\ last.who = a /\ last.verdict = v

TimedOut(a) == last.op = "submitIssueTask" /\ ~last.ok /\ last.who = a

SubmissionDeleted(a) == Waiting(a) /\ calls[a].sub \notin DOMAIN subs

OpenSubmissions(t) == {x \in DOMAIN subs : subs[x].task = t /\ subs[x].status = "open"}

\* C19: whenever no call is in progress, every task has at most one Submission in
\* status open.
C19_OneOpenSubmission ==
  calls = << >> => \A t \in DOMAIN tasks : Cardinality(OpenSubmissions(t)) <= 1

\* ============================================================ issue claims

\* C6 as stated: the seq values of the event log are 1, 2, 3, ... without gaps.
C6_SeqWithoutGaps == \A i \in DOMAIN events : events[i].seq = i

\* C6 amended: the seq values of the event log increase strictly, start at 1 and end at
\* next_seq - 1; a value is missing only below a later issue_task_reset event, whose
\* handler removed the events of the task it reset.
C6_SeqIncreasingGapsFromReset ==
  /\ events # << >> => events[1].seq = 1 /\ events[Len(events)].seq = meta.nextSeq - 1
  /\ \A i \in DOMAIN events : i > 1 =>
        /\ events[i - 1].seq < events[i].seq
        /\ events[i - 1].seq + 1 < events[i].seq =>
              \E j \in DOMAIN events : j >= i /\ events[j].type = "issue_task_reset"

\* a log after a reset that left a hole in the numbering
C6_Witness ==
  /\ last.op = "resetIssueTask" /\ last.ok
  /\ \E i \in DOMAIN events : events[i].seq > i

\* the events of the log after a step that were in the log before it, and those the
\* step appended
KeptEvents  == SelectSeq(events', LAMBDA e : e.seq < meta.nextSeq)
AddedEvents == SelectSeq(events', LAMBDA e : e.seq >= meta.nextSeq)

\* C26: in every step next_seq stays or grows; the events that remain in the log are
\* events of the old log in their old order, followed by the events the step appended;
\* and the appended events carry increasing seq values that are at least the old
\* next_seq, hence above every seq issued before, and below the new next_seq.
C26_NextSeqNeverRewound ==
  [][/\ meta'.nextSeq >= meta.nextSeq
     /\ \A i \in DOMAIN events : events[i].seq < meta.nextSeq
     /\ events' = KeptEvents \o AddedEvents
     /\ KeptEvents = SelectSeq(events, LAMBDA e : e \in SeqRange(KeptEvents))
     /\ \A i \in DOMAIN AddedEvents :
          /\ AddedEvents[i].seq < meta'.nextSeq
          /\ i > 1 => AddedEvents[i - 1].seq < AddedEvents[i].seq]_vars

\* a reset removed events from the log, and an event appended by a later call carries
\* a seq above the number of events in the log
C26_Witness ==
  /\ last.op # "resetIssueTask"
  /\ \E i \in DOMAIN events : events[i].type = "issue_task_reset" /\ i < Len(events)
  /\ events[Len(events)].seq > Len(events)
  /\ events[Len(events)].seq = meta.nextSeq - 1

CloseCommits == last'.op = "closeIssue" /\ last'.ok /\ events' # events

\* C9: closeIssue marks the issue done only if every task is done at that moment, and
\* a closeIssue call that finds a task not done leaves the issue as it was.
C9_CloseOnlyWhenAllDone ==
  [][CloseCommits => issue'.status = "done" /\ AllDone(tasks)]_vars

\* the task numbers of the issue are 1..k
Gapless(ts) == DOMAIN ts = 1 .. Cardinality(DOMAIN ts)

TiedTo(x, t, owner) == x # NoLock /\ x.task = t /\ (owner = "" \/ x.owner = owner)

\* nothing of task t is left but the task itself and its required docs
Wiped(t) ==
  /\ tasks'[t] = [NewTask(tasks[t].difficulty, tasks[t].points)
                    EXCEPT !.docs = {DocFile(n) : n \in RequiredTaskDocs} \cap tasks[t].docs]
  /\ \A x \in DOMAIN subs' : subs'[x].task # t
  /\ \A x \in DOMAIN msgs' : msgs'[x].task # t
  /\ \A x \in DOMAIN leadInbox' : leadInbox'[x].task # t
  /\ \A x \in workerInbox' : x.task # t
  /\ tasks[t].resTok # 0 => tasks[t].resTok \notin DOMAIN tokens'

\* C39: resetIssueTask on a task changes nothing of the other tasks: their task
\* records with status and reservation, the token files their reservations depend on,
\* the leases and file locks that name them, and their events all stay as they were.
C39_ResetLeavesOtherTasks ==
  [][last'.op = "resetIssueTask" /\ last'.ok /\ ResetTask(last'.arg) =>
       \A u \in DOMAIN tasks \ {last'.arg} :
          /\ tasks'[u] = tasks[u]
          /\ tasks[u].resTok \in DOMAIN tokens =>
                /\ tasks[u].resTok \in DOMAIN tokens'
                /\ tokens'[tasks[u].resTok] = tokens[tasks[u].resTok]
          /\ \A l \in DOMAIN leases :
                leases[l].task = u => l \in DOMAIN leases' /\ leases'[l] = leases[l]
          /\ \A f \in Files : fileLocks[f].task = u => fileLocks'[f] = fileLocks[f]
          /\ SelectSeq(events', LAMBDA e : e.task = u)
               = SelectSeq(events, LAMBDA e : e.task = u)]_vars

\* C25 as stated: a successful resetIssueTask leaves the task as createIssueTask made
\* it, with its required docs and no others, no submission, message or inbox item of
\* the task, no reserved token file, and no lease or file lock that names the task.
C25_ResetWipesTask ==
  [][last'.op = "resetIssueTask" /\ last'.ok /\ ResetTask(last'.arg) =>
       /\ Wiped(last'.arg)
       /\ \A l \in DOMAIN leases' : ~TiedTo(leases'[l], last'.arg, "")
       /\ \A f \in Files : ~TiedTo(fileLocks'[f], last'.arg, "")]_vars

\* C25 amended: as stated, except for the locks: the leases and file locks removed are
\* those that name the task and belong to the worker who held the task when it was
\* reset, or to anyone when nobody held it; the leases and locks of other owners stay
\* as they were.
C25_ResetWipesTaskAndOwnersLocks ==
  [][last'.op = "resetIssueTask" /\ last'.ok /\ ResetTask(last'.arg) =>
       LET t     == last'.arg
           owner == tasks[t].claimedBy
       IN  /\ Wiped(t)
           /\ \A l \in DOMAIN leases :
                IF TiedTo(leases[l], t, owner)
                THEN l \notin DOMAIN leases'
                ELSE l \in DOMAIN leases' /\ leases'[l] = leases[l]
           /\ \A f \in Files :
                /\ ~TiedTo(fileLocks'[f], t, owner)
                /\ fileLocks'[f] \in {NoLock, fileLocks[f]}
                /\ fileLocks[f] # NoLock /\ fileLocks[f].task # t
                     /\ fileLocks[f].lease \in DOMAIN leases' => fileLocks'[f] = fileLocks[f]]_vars

\* a claimed, submitted and reviewed task with a question, a lock and a note was reset
C25_Witness ==
  /\ last.op = "resetIssueTask" /\ last.ok
  /\ tasks[last.arg].status = "open" /\ tasks[last.arg].docs = {DocFile("spec")}
  /\ ids.sub > 1 /\ subs = << >>
  /\ ids.lease > 1 /\ DOMAIN leases = {}
  /\ ids.tok > 1 /\ DOMAIN tokens = {}

\* C23: with max_task_count > 0 the issue never has more than max_task_count tasks,
\* under any interleaving of createIssueTask calls.
C23_TaskCountWithinLimit == Cardinality(DOMAIN tasks) <= MaxTaskCount

\* a step of a call that starts with SweepExpired
IssueSweepingCall ==
  \/ SweepExpired
  \/ last'.op = "claimIssueTask" /\ \E t \in DOMAIN tasks : ClaimTask("w1", t, 0)
  \/ last'.op = "reopenIssue" /\ ReopenIssue

\* C31: when the issue is open or in_progress and its lease has run out, the next call
\* that sweeps sets it to canceled and appends an issue_expired event; only a
\* reopenIssue call goes on to reopen the issue it has just canceled.
C31_LapsedIssueCanceled ==
  [][(/\ issue.status \in {"open", "in_progress"}
      /\ issue.lease > 0 /\ now > issue.lease
      /\ IssueSweepingCall) =>
       /\ Len(events') > Len(events)
       /\ events'[Len(events) + 1] = [seq |-> meta.nextSeq, type |-> "issue_expired",
                                       task |-> 0]
       /\ \/ issue'.status = "canceled"
          \/ /\ last'.op = "reopenIssue" /\ last'.ok /\ issue'.status = "open"
             /\ events'[Len(events')].type = "issue_reopened"]_vars

\* a sweep has canceled the issue after its lease ran out
C31_Witness ==
  /\ issue.status = "canceled" /\ now > issue.lease
  /\ last.op \in {"sweep", "claimIssueTask"}
  /\ events[Len(events)].type \in {"issue_expired", "issue_task_expired"}

\* ============================================================ inbox claims

\* an item somebody holds: in processing and its claim TTL has not expired
Held(item) == item.status = "processing" /\ now <= item.claimExp

LeadClaimReturns ==
  /\ last'.op = "waitIssueTaskEvents" /\ last'.arg # 0
  /\ last'.who \in DOMAIN calls /\ last'.who \notin DOMAIN calls'

AcceptorClaimReturns ==
  /\ last'.op = "claimAcceptorInbox" /\ last'.arg \in DOMAIN accInbox
  /\ accInbox'[last'.arg] # accInbox[last'.arg]
  /\ accInbox'[last'.arg].status = "processing"
  /\ accInbox'[last'.arg].claimedBy = last'.who

\* C8: a claim call, on the lead inbox or on the acceptor inbox, never returns an item
\* that is in processing with an unexpired claim TTL when the call runs; the item it
\* returns is from then on held by the caller for inbox_claim_ttl_sec.
C8_HeldItemNotHandedOut ==
  [][/\ LeadClaimReturns =>
          /\ last'.arg \in DOMAIN leadInbox
          /\ ~Held(leadInbox[last'.arg])
          /\ leadInbox'[last'.arg].status = "processing"
          /\ leadInbox'[last'.arg].claimedBy = last'.who
          /\ leadInbox'[last'.arg].claimExp = now + InboxClaimTTL
     /\ AcceptorClaimReturns =>
          /\ ~Held(accInbox[last'.arg])
          /\ accInbox'[last'.arg].claimExp = now + InboxClaimTTL]_vars

\* a second lead session claimed while the first held the oldest item: it got the next one
C8_Witness ==
  /\ last.op = "waitIssueTaskEvents" /\ last.arg # 0
  /\ last.arg \in DOMAIN leadInbox /\ leadInbox[last.arg].claimedBy = last.who
  /\ \E i \in DOMAIN leadInbox :
        /\ i < last.arg
        /\ Held(leadInbox[i])
        /\ leadInbox[i].claimedBy \in Leads \ {last.who}

\* a step of sweepInboxClaims or of claimLeadInboxItem
SweepOrClaim(a) ==
  /\ a \in DOMAIN calls
  /\ \/ calls[a].at = "sweep" /\ SweepInboxClaims(a)
     \/ calls[a].at = "poll" /\ (ClaimLeadInboxItem(a) \/ ClaimLeadInboxTimeout(a))

\* C17: an inbox item that is in processing with its claim_expires_at_ms in the past is
\* reset to pending by the next sweepInboxClaims or claimLeadInboxItem; after that step
\* it is pending with no claimant, or the claim that reset it has handed it to its caller.
C17_StaleClaimReset ==
  [][\A a \in Leads, i \in DOMAIN leadInbox :
       /\ leadInbox[i].status = "processing"
       /\ leadInbox[i].claimExp > 0 /\ now > leadInbox[i].claimExp
       /\ SweepOrClaim(a)
       => \/ leadInbox'[i] = [leadInbox[i] EXCEPT !.status = "pending", !.claimedBy = "",
                                                  !.claimExp = 0]
          \/ /\ calls[a].at = "poll" /\ last'.arg = i /\ last'.who = a
             /\ leadInbox'[i] = [leadInbox[i] EXCEPT !.status = "processing",
                                                     !.claimedBy = a,
                                                     !.claimExp = now + InboxClaimTTL]]_vars

\* the item the last call handed out has been swept back to pending since
C17_Witness ==
  /\ last.op = "waitIssueTaskEvents" /\ last.arg \in DOMAIN leadInbox
  /\ leadInbox[last.arg].status = "pending" /\ leadInbox[last.arg].claimedBy = ""
  /\ now > InboxClaimTTL

\* ------------------------------------------------ the wait of waitIssueTaskEvents

\* a lead inbox with nothing to hand out: no pending item and no stale claim
NothingToClaim ==
  \A i \in DOMAIN leadInbox :
     /\ leadInbox[i].status # "pending"
     /\ ~(leadInbox[i].status = "processing" /\ leadInbox[i].claimExp > 0
          /\ now > leadInbox[i].claimExp)

\* a's waitIssueTaskEvents call is in its poll loop
Polling(a) == a \in DOMAIN calls /\ calls[a].at = "poll"

C18_QuestionBlocksReplyUnblocks ==
  [][/\ last'.op = "postIssueTaskMessage" /\ last'.ok =>
          \A t \in DOMAIN tasks, k \in {"question", "blocker"} :
             tasks[t].status = "in_progress" /\ PostTaskMessage(last'.who, t, k) =>
               tasks'[t].status = "blocked"
     /\ last'.op = "replyIssueTaskMessage" /\ last'.ok =>
          \A t \in DOMAIN tasks, m \in {0} \cup DOMAIN msgs :
             tasks[t].status = "blocked" /\ ReplyTaskMessage(t, m) =>
               tasks'[t].status = "in_progress"]_vars

\* the lead has answered a blocker and its task is in progress again
C18_Witness ==
  /\ last.op = "replyIssueTaskMessage" /\ last.ok
  /\ msgs[last.arg].kind = "blocker" /\ msgs[last.arg].status = "replied"
  /\ tasks[msgs[last.arg].task].status = "in_progress"
  /\ tasks[msgs[last.arg].task].claimedBy = msgs[last.arg].sender

\* C32 as stated: a postIssueTaskMessage call by anyone but the task's current claimed_by
\* fails and leaves the messages, the lead inbox and the task as they were.
C32_PostOnlyByClaimant ==
  [][\A o \in Workers, t \in DOMAIN tasks, k \in PostKinds :
       (/\ last'.op = "postIssueTaskMessage" /\ last'.who = o
        /\ PostTaskMessage(o, t, k)
        /\ tasks[t].claimedBy # o) =>
         /\ ~last'.ok
         /\ msgs' = msgs /\ leadInbox' = leadInbox /\ tasks' = tasks]_vars

\* ============================================================ delivery claims

\* the changed files of the tasks whose submission was approved
ApprovedUnion == UNION {tasks[t].files : t \in {x \in DOMAIN tasks : tasks[x].status = "done"}}

\* C10 as stated: the files of every approved Delivery are a superset of the union of
\* the approved tasks' changed_files.
C10_ApprovedCoversUnion ==
  \A d \in DOMAIN deliveries :
     deliveries[d].status = "approved" => ApprovedUnion \subseteq SeqRange(deliveries[d].files)

DeliveryValidated == ~Pending("createDelivery") /\ "createDelivery" \in DOMAIN calls'

\* C10 amended: a delivery passes the validation of submitDelivery only when every task
\* is done and its changed_files list has at least as many entries as the de-duplicated
\* union of the tasks' changed_files has files; the Delivery written carries exactly the
\* validated list, the list never changes, and a Delivery becomes approved only out of
\* in_review.
C10_CountCoversUnionWhenValidated ==
  [][/\ DeliveryValidated =>
          /\ AllDone(tasks)
          /\ Len(calls'["createDelivery"].files) >= Cardinality(ChangedUnion(tasks))
     /\ \A d \in DOMAIN deliveries' \ DOMAIN deliveries :
          /\ Pending("createDelivery")
          /\ deliveries'[d].files = calls["createDelivery"].files
          /\ deliveries'[d].status = "open"
     /\ \A d \in DOMAIN deliveries :
          /\ d \in DOMAIN deliveries' /\ deliveries'[d].files = deliveries[d].files
          /\ deliveries'[d].status = "approved" /\ deliveries[d].status # "approved" =>
                deliveries[d].status = "in_review"]_vars

\* an approved Delivery that lists as many entries as the tasks changed files
C10_Witness ==
  /\ last.op = "reviewDelivery" /\ last.ok
  /\ deliveries[last.arg].status = "approved"
  /\ AllDone(tasks)
  /\ Cardinality(ChangedUnion(tasks)) > 1
  /\ Len(deliveries[last.arg].files) >= Cardinality(ChangedUnion(tasks))

\* C24: a reviewDelivery call succeeds only on a delivery that is in_review when the
\* call holds the store lock and whose claim is the caller's: when the claimDelivery
\* call that last succeeded on the delivery came from another acceptor's session, the
\* review fails.
C24_ReviewOnlyByCurrentClaimant ==
  [][last'.op = "reviewDelivery" /\ last'.ok /\ last' # last =>
       /\ Sweep(Cur).deliveries[last'.arg].status = "in_review"
       /\ last.op = "claimDelivery" /\ last.ok /\ last.arg = last'.arg =>
             last'.who = last.who]_vars

\* a's waitDeliveries call returns in this step
WaitDeliveriesReturns(a) ==
  a \in DOMAIN calls /\ calls[a].at = "list" /\ a \notin DOMAIN calls'

C30_WaitDeliveriesReturnsClaimed ==
  [][\A a \in Acceptors : WaitDeliveriesReturns(a) =>
        \A d \in last'.got : /\ deliveries'[d].status = "in_review"
                             /\ deliveries'[d].claimedBy = Acceptor
                             /\ deliveries'[d].lease > now]_vars

\* ============================================================ lock claims

IsLockAttempt == ids'.lease # ids.lease /\ last'.op = "lockFiles"

\* C3: a lockFiles call that succeeds never takes a file on which another owner
\* held a FileLock that had not yet expired when the call ran.
C3_NoGrantOverLiveForeignLock ==
  [][IsLockAttempt /\ last'.ok =>
       \A f \in SeqRange(leases'[last'.arg].files) :
          \/ fileLocks[PathHash(f)] = NoLock
          \/ fileLocks[PathHash(f)].owner = last'.who
          \/ now >= fileLocks[PathHash(f)].expires]_vars

\* a grant over a file whose previous lock, of another owner, had run out
C3_Witness ==
  /\ last.op = "lockFiles" /\ last.ok
  /\ \E l \in DOMAIN leases : l < last.arg /\ leases[l].owner # last.who
        /\ SeqRange(leases[l].files) \cap SeqRange(leases[last.arg].files) # {}
  /\ \E f \in Files : fileLocks[f] # NoLock /\ fileLocks[f].lease = last.arg

\* C4: a lockFiles attempt that fails on a conflict leaves the leases as they were
\* and leaves no FileLock it wrote: every file is locked as before or not at all.
C4_FailedAttemptLeavesNothing ==
  [][IsLockAttempt /\ ~last'.ok =>
       /\ leases' = leases
       /\ \A f \in Files : fileLocks'[f] = NoLock \/ fileLocks'[f] = fileLocks[f]]_vars

\* a failed attempt that had already written at least one file before the conflict
C4_Witness == last.op = "lockFiles" /\ ~last.ok /\ last.arg > 0

\* C34 as stated: a lockFiles call that fails leaves every FileLock that existed before
\* the call in place and unchanged, the caller's own unexpired locks included.
C34_FailedLockKeepsExistingLocks ==
  [][IsLockAttempt /\ ~last'.ok =>
       \A f \in Files : fileLocks[f] # NoLock => fileLocks'[f] = fileLocks[f]]_vars

\* C38: at no time do two unexpired Leases with different owners both list the same
\* file; in particular heartbeat cannot revive an expired lease whose file has since been
\* taken over.  A lease counts as unexpired while its expiry time lies ahead.
C38_NoTwoLiveLeasesShareFile ==
  \A l1, l2 \in DOMAIN leases :
     /\ leases[l1].owner # leases[l2].owner
     /\ now < leases[l1].expires /\ now < leases[l2].expires
     => {PathHash(x) : x \in SeqRange(leases[l1].files)}
          \cap {PathHash(x) : x \in SeqRange(leases[l2].files)} = {}

\* C5: every FileLock names a Lease that exists and lists the locked file.
C5_FileLockHasLease ==
  \A f \in Files :
     fileLocks[f] # NoLock =>
        /\ fileLocks[f].lease \in DOMAIN leases
        /\ f \in {PathHash(x) : x \in SeqRange(leases[fileLocks[f].lease].files)}

\* a task reset that leaves a file locked for the task by an earlier claimant
C5_Witness ==
  /\ last.op = "resetIssueTask" /\ last.ok
  /\ \E f \in Files : fileLocks[f] # NoLock /\ fileLocks[f].task = last.arg

C16_HeartbeatOnlyAdvancesExpiry ==
  [][/\ last'.op = "heartbeat" /\ last'.arg \in DOMAIN leases
     /\ now < leases[last'.arg].expires
     /\ \E e \in {0, 1} : Heartbeat(last'.who, last'.arg, e)
     => LET l == last'.arg
        IN  /\ DOMAIN leases' = DOMAIN leases
            /\ \A k \in DOMAIN leases \ {l} : leases'[k] = leases[k]
            /\ leases'[l] = [leases[l] EXCEPT !.expires = leases'[l].expires]
            /\ leases'[l].expires >= leases[l].expires
            /\ \A f \in Files :
                 IF fileLocks[f] # NoLock /\ fileLocks[f].lease = l
                 THEN /\ fileLocks'[f] = [fileLocks[f] EXCEPT !.expires = leases'[l].expires]
                      /\ fileLocks'[f].expires >= fileLocks[f].expires
                 ELSE fileLocks'[f] = fileLocks[f]]_vars

\* C20: for every stored Lease and every file it lists there is a FileLock for that file
\* whose lease_id is the Lease's id.
C20_LeaseFilesAreLocked ==
  \A l \in DOMAIN leases :
     \A f \in SeqRange(leases[l].files) :
        /\ fileLocks[PathHash(f)] # NoLock
        /\ fileLocks[PathHash(f)].lease = l

\* w1's lockFiles call sleeps in this step
Sleeps(o) ==
  /\ o \in DOMAIN calls /\ calls[o].at = "sleep"
  /\ o \in DOMAIN calls' /\ calls'[o].at = "try"

\* C29 as stated: the first sleep of a retrying lockFiles call lasts 500 ms, every later
\* one 1.5 times the one before it or the cap, none lasts more than 4 s, and the call
\* gives up only past its deadline, returning the error of its last attempt.
C29_BackoffWithinCap ==
  /\ [][Sleeps("w1") =>
          /\ calls["w1"].slept = 0 => calls'["w1"].slept = Millis(500)
          /\ calls["w1"].slept # 0 =>
               \/ 2 * calls'["w1"].slept = 3 * calls["w1"].slept
               \/ calls'["w1"].slept = Millis(4000)
          /\ calls'["w1"].slept <= Millis(4000)]_vars
  /\ [][("w1" \in DOMAIN calls /\ "w1" \notin DOMAIN calls' /\ ~last'.ok) =>
          /\ calls["w1"].elapsed > calls["w1"].deadline
          /\ last'.err = LockError(Normalize(calls["w1"].raws), "w1")]_vars

====
